---- MODULE Spec2Model ----
(***************************************************************************)
(* Model of the traefik-unifidns plugin: the UniFi client (login, list,    *)
(* upsert of a static DNS record), the Traefik route source, the rule      *)
(* parser, the device router, the reconciliation pass (updateDNS), the     *)
(* constructor (New) and the timer loop (updateLoop).                      *)
(*                                                                         *)
(* Strings that the code inspects character by character (rules, host      *)
(* names, patterns, middleware names) are sequences of one-character       *)
(* strings.  Every HTTP exchange is one atomic step: the request is sent,  *)
(* the remote side answers, the function handles the answer.               *)
(***************************************************************************)
EXTENDS Integers, Sequences, FiniteSets, TLC

\* ------------------------------------------------------------------ bounds
\* Longest record list a device holds (a device at capacity refuses a create).
MaxRecords == 2
\* Most passes begun after the one New runs: timer ticks delivered to the update
\* loop plus direct calls of updateDNS.
MaxEvents == 2
\* The descriptors in a body of the route source, where all bodies are drawn.
MaxRaw == 2
\* The calls of ServeHTTP.
MaxRequests == 2

\* net/http StatusOK, the only status the call sites accept.
StatusOK == 200

\* ------------------------------------------------------------ string data
Nil == "nil"
NoStr == <<>>

HostAX == <<"a", ".", "x">>
HostBY == <<"b", ".", "y">>
Hostnames == {HostAX, HostBY}

IP1 == "10.0.0.5"
IP2 == "10.0.0.6"
IPs == {IP1, IP2}

\* The three delimiter characters, named (a quote character cannot stand in a
\* string literal here): backtick, single quote, double quote.
Backtick == "bt"
SQuote == "sq"
DQuote == "dq"
Space == " "

\* ------------------------------------------------------ sequence helpers
Range(s) == {s[i] : i \in 1..Len(s)}

\* All sequences over S of length at most n.
SeqsUpTo(S, n) == UNION {[1..k -> S] : k \in 0..n}

\* strings.HasPrefix(SubSeq(s, i, Len(s)), p)
HasPrefixAt(s, i, p) ==
    /\ i >= 1
    /\ i + Len(p) - 1 <= Len(s)
    /\ \A k \in 1..Len(p) : s[i + k - 1] = p[k]

\* strings.Contains(s, sub)
Contains(s, sub) == \E i \in 1..(Len(s) + 1) : HasPrefixAt(s, i, sub)

Min(S) == CHOOSE x \in S : \A y \in S : x <= y

\* --------------------------------------------------------------- RuleParser
IsSpace(ch) == ch \in {" ", "\t", "\n", "\r"}

\* strings.TrimSpace
RECURSIVE TrimLeft(_)
TrimLeft(s) ==
    IF s # <<>> /\ IsSpace(Head(s)) THEN TrimLeft(Tail(s)) ELSE s

RECURSIVE TrimRight(_)
TrimRight(s) ==
    IF s # <<>> /\ IsSpace(s[Len(s)]) THEN TrimRight(SubSeq(s, 1, Len(s) - 1)) ELSE s

\* extractHostname without strings.TrimSpace.
TrimSpaceNone(s) == s

TrimSpace(s) == TrimRight(TrimLeft(s))

HostOpen(q) == <<"H", "o", "s", "t", "(", q>>

\* Index of the first q at or after position i of rule, 0 when there is none.
NextQuote(rule, i, q) ==
    LET js == {j \in i..Len(rule) : rule[j] = q}
    IN  IF js = {} THEN 0 ELSE Min(js)

\* The regular expression Host\(q([^q]+)q\) matches rule starting at position i:
\* the greedy class [^q]+ runs to the next q, which must be followed by ")".
HostMatchAt(rule, i, q) ==
    /\ HasPrefixAt(rule, i, HostOpen(q))
    /\ LET j == NextQuote(rule, i + 6, q)
       IN  /\ j > i + 6
           /\ j + 1 <= Len(rule)
           /\ rule[j + 1] = ")"

\* re.FindStringSubmatch(rule) for the expression with delimiter q: the leftmost
\* match as <<whole match, group 1>>, or the empty sequence (nil) without a match.
FindStringSubmatch(rule, q) ==
    LET starts == {i \in 1..Len(rule) : HostMatchAt(rule, i, q)}
    IN  IF starts = {} THEN <<>>
        ELSE LET i == Min(starts)
                 j == NextQuote(rule, i + 6, q)
             IN  <<SubSeq(rule, i, j + 1), SubSeq(rule, i + 6, j - 1)>>

\* The delimiter styles tried from the double quote to the backtick.
DelimiterOrderReversed == <<DQuote, SQuote, Backtick>>

\* The delimiter styles in the order extractHostname tries them.
DelimiterOrder == <<Backtick, SQuote, DQuote>>

RECURSIVE ExtractFrom(_, _)
ExtractFrom(rule, k) ==
    IF k > Len(DelimiterOrder) THEN NoStr
    ELSE LET matches == FindStringSubmatch(rule, DelimiterOrder[k])
         IN  IF Len(matches) > 1 THEN TrimSpace(matches[2])
             ELSE ExtractFrom(rule, k + 1)

extractHostname(rule) == ExtractFrom(rule, 1)

\* Host(<q><h><q>)
HostRule(q, h) == HostOpen(q) \o h \o <<q, ")">>


\* ------------------------------------------------------------- DeviceRouter
\* Device patterns are regular expressions over this subset of the syntax:
\* a literal character, "." (any character), "\" followed by a character (that
\* character, literally), x* (any number of x), "^" in first place, "$" in last
\* place, and "[" which never finds its closing bracket.

\* regexp.Compile succeeds.
CompileOK(p) ==
    /\ \A i \in 1..Len(p) : p[i] # "["
    /\ p # <<>> => p[1] # "*"
    /\ p # <<>> => ~(p[Len(p)] = "\\" /\ (Len(p) = 1 \/ p[Len(p) - 1] # "\\"))

RECURSIVE MatchHere(_, _)
MatchHere(p, s) ==
    IF p = <<>> THEN TRUE
    ELSE IF p = <<"$">> THEN s = <<>>
    ELSE IF p[1] = "\\" /\ Len(p) >= 2
         THEN s # <<>> /\ s[1] = p[2] /\ MatchHere(SubSeq(p, 3, Len(p)), Tail(s))
    ELSE IF Len(p) >= 2 /\ p[2] = "*"
         THEN \E k \in 0..Len(s) :
                 /\ \A j \in 1..k : p[1] = "." \/ s[j] = p[1]
                 /\ MatchHere(SubSeq(p, 3, Len(p)), SubSeq(s, k + 1, Len(s)))
    ELSE s # <<>> /\ (p[1] = "." \/ p[1] = s[1]) /\ MatchHere(Tail(p), Tail(s))

\* (*regexp.Regexp).MatchString: the pattern matches somewhere in s.
MatchString(p, s) ==
    IF p # <<>> /\ p[1] = "^" THEN MatchHere(Tail(p), s)
    ELSE \E i \in 1..(Len(s) + 1) : MatchHere(p, SubSeq(s, i, Len(s)))

PatX == <<".", "*", "\\", ".", "x">>
PatY == <<".", "*", "\\", ".", "y">>
PatA == <<"a">>
PatAny == <<".", "*">>
PatBad == <<"[">>

\* ---------------------------------------------------------- configuration
DigitChars == {"0", "1", "2", "3", "4", "5", "6", "7", "8", "9"}
DurationUnits == {<<"n", "s">>, <<"u", "s">>, <<"m", "s">>, <<"s">>, <<"m">>, <<"h">>}

\* time.ParseDuration succeeds: one or more groups of digits followed by a unit.
RECURSIVE ParseDurationOK(_)
ParseDurationOK(s) ==
    \E n \in 1..Len(s) :
        /\ \A i \in 1..n : s[i] \in DigitChars
        /\ \E u \in DurationUnits :
              /\ HasPrefixAt(s, n + 1, u)
              /\ LET rest == SubSeq(s, n + Len(u) + 1, Len(s))
                 IN  rest = <<>> \/ ParseDurationOK(rest)

Hosts == {"udm1", "udm2"}

Device(h, p) == [Host |-> h, Pattern |-> p]

Interval5m == <<"5", "m">>
IntervalBad == <<"i", "n", "v">>

\* The configurations New is given: disjoint patterns, overlapping patterns, one
\* device, and one of each kind of invalid configuration.
CfgDisjoint == [UpdateInterval |-> Interval5m,
                Devices |-> <<Device(<<"udm1">>, PatX), Device(<<"udm2">>, PatY)>>]
CfgOverlap == [UpdateInterval |-> Interval5m,
               Devices |-> <<Device(<<"udm1">>, PatX), Device(<<"udm2">>, PatA)>>]
CfgBadInterval == [UpdateInterval |-> IntervalBad,
                   Devices |-> <<Device(<<"udm1">>, PatX)>>]
CfgEmptyPattern == [UpdateInterval |-> Interval5m,
                    Devices |-> <<Device(<<"udm1">>, PatX), Device(<<"udm2">>, <<>>)>>]
CfgBadPattern == [UpdateInterval |-> Interval5m,
                  Devices |-> <<Device(<<"udm1">>, PatBad), Device(<<"udm2">>, PatY)>>]
CfgCatchAll == [UpdateInterval |-> Interval5m,
                Devices |-> <<Device(<<"udm1">>, PatAny)>>]
Configs == {CfgDisjoint, CfgOverlap, CfgBadInterval, CfgEmptyPattern, CfgBadPattern}

\* Client identifiers "device-<i>", by the device's index in the configuration.
ClientIds == 0..1

Schemes == {"http://", "https://"}

\* NewUniFiClient: a client without a session; a host given without a scheme is
\* reached over https.  A URL is the sequence <<scheme, host>>.
NewUniFiClient(host) ==
    [baseURL |-> IF Len(host) = 2 /\ host[1] \in Schemes THEN host ELSE <<"https://">> \o host,
     csrfToken |-> ""]

\* ------------------------------------------------------------- RouteSource
MwMarker == <<"t", "r", "a", "e", "f", "i", "k", "u", "n", "i", "f", "i", "d", "n", "s">>
MwMarkerAtFile == MwMarker \o <<"@", "f">>
MwAuth == <<"a", "u", "t", "h">>

\* JSON values of a route descriptor's fields: a string, a list of strings and
\* numbers, a number, or an absent field.
JStr(s) == [t |-> "str", s |-> s, l |-> <<>>]
JNum == [t |-> "num", s |-> <<>>, l |-> <<>>]
JAbsent == [t |-> "absent", s |-> <<>>, l |-> <<>>]
JList(items) == [t |-> "list", s |-> <<>>, l |-> items]
JItemStr(s) == [t |-> "str", s |-> s]
JItemNum == [t |-> "num", s |-> <<>>]

Raw(rule, mw) == [rule |-> rule, middlewares |-> mw]

\* The strings of a middlewares list, its non-string items dropped.
RECURSIVE StringItems(_)
StringItems(items) ==
    IF items = <<>> THEN <<>>
    ELSE IF Head(items).t = "str" THEN <<Head(items).s>> \o StringItems(Tail(items))
    ELSE StringItems(Tail(items))

\* The validation loop of GetRouters: the routers kept from the raw descriptors.
RECURSIVE ConvertRouters(_)
ConvertRouters(raw) ==
    IF raw = <<>> THEN <<>>
    ELSE LET r == Head(raw)
             rest == ConvertRouters(Tail(raw))
         IN  IF r.rule.t # "str" \/ r.rule.s = <<>> THEN rest
             ELSE IF r.middlewares.t = "list"
                  THEN <<[Rule |-> r.rule.s, Middlewares |-> StringItems(r.middlewares.l)]>> \o rest
             ELSE IF r.middlewares.t = "str"
                  THEN <<[Rule |-> r.rule.s, Middlewares |-> <<r.middlewares.s>>]>> \o rest
             ELSE rest

HasMarker(router) ==
    \E i \in 1..Len(router.Middlewares) : Contains(router.Middlewares[i], MwMarker)

\* The filter loop without its break: a router is appended once for each of
\* its middlewares that holds the marker.
RECURSIVE FilterRoutersNoBreak(_)
FilterRoutersNoBreak(routers) ==
    IF routers = <<>> THEN <<>>
    ELSE LET r == Head(routers)
             k == Cardinality({i \in 1..Len(r.Middlewares) : Contains(r.Middlewares[i], MwMarker)})
         IN  [j \in 1..k |-> r] \o FilterRoutersNoBreak(Tail(routers))

\* The filter loop of GetRouters.
RECURSIVE FilterRouters(_)
FilterRouters(routers) ==
    IF routers = <<>> THEN <<>>
    ELSE IF HasMarker(Head(routers)) THEN <<Head(routers)>> \o FilterRouters(Tail(routers))
    ELSE FilterRouters(Tail(routers))

\* An answer of the route source: a transport error (status 0), a status with
\* a body that is either undecodable or a list of raw descriptors.
TransportError == [err |-> TRUE, status |-> 0, decodable |-> FALSE, body |-> <<>>]

\* No answer of the route source: a pass that has not fetched.
NoAnswer == [err |-> FALSE, status |-> 0, decodable |-> FALSE, body |-> <<>>]

HttpAnswer(status, decodable, body) ==
    [err |-> FALSE, status |-> status, decodable |-> decodable, body |-> body]

\* GetRouters failing on a descriptor it cannot convert.
GetRoutersStrict(resp) ==
    IF resp.err THEN [routers |-> <<>>, err |-> "failed to get routers"]
    ELSE IF resp.status # StatusOK THEN [routers |-> <<>>, err |-> "status code"]
    ELSE IF ~resp.decodable THEN [routers |-> <<>>, err |-> "failed to decode router response"]
    ELSE IF Len(ConvertRouters(resp.body)) # Len(resp.body)
         THEN [routers |-> <<>>, err |-> "invalid router"]
    ELSE [routers |-> FilterRouters(ConvertRouters(resp.body)), err |-> Nil]

\* TraefikClient.GetRouters on the answer resp: <<routers, error>>.
GetRouters(resp) ==
    IF resp.err THEN [routers |-> <<>>, err |-> "failed to get routers"]
    ELSE IF resp.status # StatusOK THEN [routers |-> <<>>, err |-> "status code"]
    ELSE IF ~resp.decodable THEN [routers |-> <<>>, err |-> "failed to decode router response"]
    ELSE [routers |-> FilterRouters(ConvertRouters(resp.body)), err |-> Nil]

\* ------------------------------------------------------------- getLocalIP
Addr(ip, loopback, v4) == [ip |-> ip, loopback |-> loopback, v4 |-> v4]

\* getLocalIP over the interface addresses: the first address that is not
\* loopback and is IPv4, or an error.
RECURSIVE FirstSuitable(_)
FirstSuitable(addrs) ==
    IF addrs = <<>> THEN [ip |-> "", err |-> "no suitable IP address found"]
    ELSE IF ~Head(addrs).loopback /\ Head(addrs).v4 THEN [ip |-> Head(addrs).ip, err |-> Nil]
    ELSE FirstSuitable(Tail(addrs))

\* getLocalIP that returns the first address, whatever its kind.
getLocalIPFirstAddress(ifaces) ==
    IF ifaces.err THEN [ip |-> "", err |-> "interface error"]
    ELSE IF ifaces.addrs = <<>> THEN [ip |-> "", err |-> "no suitable IP address found"]
    ELSE [ip |-> Head(ifaces.addrs).ip, err |-> Nil]

getLocalIP(ifaces) ==
    IF ifaces.err THEN [ip |-> "", err |-> "interface error"]
    ELSE FirstSuitable(ifaces.addrs)

Loopback4 == Addr("127.0.0.1", TRUE, TRUE)
Global6 == Addr("fe80::1", FALSE, FALSE)

\* What net.InterfaceAddrs returns: an error, addresses none of which is
\* suitable, and addresses the last of which is.
InterfaceAnswers ==
    { [err |-> TRUE, addrs |-> <<>>],
      [err |-> FALSE, addrs |-> <<Loopback4, Global6>>],
      [err |-> FALSE, addrs |-> <<Loopback4, Global6, Addr(IP1, FALSE, TRUE)>>] }


\* ------------------------------------------------------------------ state
Tasks == {"new", "loop", "direct", "caller"}

VARIABLES
    cfg,            \* the configuration handed to New
    npc,            \* New: "start", "initial" (first pass running), "returned", "failed"
    unifiClients,   \* UniFiDNS.unifiClients: client id -> UniFiClient
    devicePatterns, \* UniFiDNS.devicePatterns: client id -> compiled pattern
    records,        \* per UniFi host, the static DNS records it holds
    mu,             \* UniFiDNS.mu: the task holding the lock, or Nil
    lastUpdate,     \* UniFiDNS.lastUpdate
    now,            \* the wall clock, counted in passes begun
    ppc,            \* per task, its position in updateDNS
    localIP,        \* per task, updateDNS's localIP
    routers,        \* per task, updateDNS's routers
    answer,         \* per task, the answer of the route source in its current pass, where observed
    idx,            \* per task, the index of the router being processed
    perr,           \* per task, what its last updateDNS returned
    plog,           \* per task, what its current pass has done so far
    pcount,         \* per task, how many of its updateDNS calls have returned
    upc,            \* per task, its position in updateDNSRecord
    uargs,          \* per task, the receiver and arguments of updateDNSRecord
    entries,        \* per task, updateDNSRecord's entries
    existingEntry,  \* per task, updateDNSRecord's existingEntry
    uerr,           \* per task, what updateDNSRecord returned
    reqs,           \* per task, the requests its current updateDNSRecord has sent
    prev,           \* per client, a summary of its last finished updateDNSRecord
    lpc,            \* updateLoop: "off", "select", "parked", "wokenTick", "wokenDone",
                    \* "pass", "stopped"
    tick,           \* ticks waiting in ticker.C (a channel of capacity 1)
    events,         \* ticks delivered and direct calls of updateDNS made so far
    ctxDone,        \* ctx.Done() is closed
    inbound,        \* the calls of ServeHTTP made so far, each with its position
    delegated       \* the calls of next.ServeHTTP made so far

vars == <<cfg, npc, unifiClients, devicePatterns, records, mu, lastUpdate, now,
          ppc, localIP, routers, idx, perr, plog, pcount, upc, uargs, entries,
          existingEntry, uerr, reqs, prev, lpc, tick, events, ctxDone, answer,
          inbound, delegated>>

newVars == <<cfg, npc, devicePatterns>>
passVars == <<mu, lastUpdate, now, ppc, localIP, routers, answer, idx, perr, plog, pcount>>
loopVars == <<lpc, tick, events, ctxDone>>
httpVars == <<inbound, delegated>>
callVars == <<upc, uargs, entries, existingEntry, uerr, reqs>>

\* ------------------------------------------------------- the UniFi device
\* A record as the device holds it; the client decodes key, value and _id.
Record(key, value, id, enabled) ==
    [key |-> key, value |-> value, id |-> id, enabled |-> enabled]

\* DNSEntry, decoded from a record of the list answer.
DNSEntry(r) == [Key |-> r.key, Value |-> r.value, ID |-> r.id]

NoEntry == [Key |-> NoStr, Value |-> "", ID |-> 0]

DecodeEntries(recs) == [i \in 1..Len(recs) |-> DNSEntry(recs[i])]

\* The statuses a device or the route source answers with; 0 is a transport error.
Statuses == {200, 201, 401}
NetErr == [err |-> TRUE, status |-> 0]
Status(s) == [err |-> FALSE, status |-> s]

\* Answers to a login request: a transport error, or a status with the
\* X-Csrf-Token header ("" when the header is absent).
LoginAnswers ==
    {[err |-> TRUE, status |-> 0, token |-> ""]}
        \cup {[err |-> FALSE, status |-> s, token |-> tk] : s \in Statuses, tk \in {"", "csrf"}}

\* Answers to the list request: a transport error, or a status with a body that
\* decodes to the records of the host or (decodable FALSE) does not decode.
ListAnswers ==
    {[err |-> TRUE, status |-> 0, decodable |-> FALSE]}
        \cup {[err |-> FALSE, status |-> s, decodable |-> FALSE] : s \in Statuses}
        \cup {[err |-> FALSE, status |-> StatusOK, decodable |-> TRUE]}

\* Answers to a write request.
WriteAnswers == {NetErr} \cup {Status(s) : s \in Statuses}

Accepted(ans) == ~ans.err /\ ans.status \in {200, 201}

Max(S) == CHOOSE x \in S : \A y \in S : x >= y

\* An id no record of the list has.
FreshId(recs) == 1 + Max({0} \cup {recs[i].id : i \in 1..Len(recs)})

\* The device applies an accepted create: a new record with a fresh id.
DeviceCreate(recs, payload) ==
    Append(recs, Record(payload.key, payload.value, FreshId(recs), payload.enabled))

\* The device applies an accepted update of the record with the id of the URL.
DeviceUpdate(recs, id, payload) ==
    [i \in 1..Len(recs) |->
        IF recs[i].id = id
        THEN Record(payload.key, payload.value, recs[i].id, payload.enabled)
        ELSE recs[i]]

\* ------------------------------------------------------------ UniFiClient
\* One request of the log: kind is "login", "list", "create" or "update".
NoPayload == [key |-> NoStr, record_type |-> "", value |-> "", enabled |-> FALSE, id |-> 0]
Req(kind, client, token, urlId, payload, status) ==
    [kind |-> kind, client |-> client, token |-> token, urlId |-> urlId,
     payload |-> payload, status |-> status]

\* login without the check of the X-Csrf-Token header for emptiness.
loginNoTokenCheck(c, ans) ==
    IF ans.err THEN [client |-> c, err |-> "failed to send login request"]
    ELSE IF ans.status # StatusOK THEN [client |-> c, err |-> "login failed with status"]
    ELSE [client |-> [c EXCEPT !.csrfToken = ans.token], err |-> Nil]

\* login that stores a token before it looks at the status.
loginStoresBeforeStatus(c, ans) ==
    IF ans.err THEN [client |-> c, err |-> "failed to send login request"]
    ELSE IF ans.status # StatusOK
         THEN [client |-> [c EXCEPT !.csrfToken = "csrf"], err |-> "login failed with status"]
    ELSE IF ans.token = "" THEN [client |-> c, err |-> "no CSRF token received"]
    ELSE [client |-> [c EXCEPT !.csrfToken = ans.token], err |-> Nil]

\* UniFiClient.login on the answer ans: the client afterwards and the error.
login(c, ans) ==
    IF ans.err THEN [client |-> c, err |-> "failed to send login request"]
    ELSE IF ans.status # StatusOK THEN [client |-> c, err |-> "login failed with status"]
    ELSE IF ans.token = "" THEN [client |-> c, err |-> "no CSRF token received"]
    ELSE [client |-> [c EXCEPT !.csrfToken = ans.token], err |-> Nil]

\* GetStaticDNSEntries without the test of the status.
ListErrorIgnoresStatus(ans) ==
    IF ans.err THEN "failed to send DNS entries request"
    ELSE Nil

\* The answer handling of GetStaticDNSEntries: the error it returns.
ListError(ans) ==
    IF ans.err THEN "failed to send DNS entries request"
    ELSE IF ans.status # StatusOK THEN "failed to get DNS entries with status"
    ELSE IF ~ans.decodable THEN "failed to decode DNS entries response"
    ELSE Nil

\* The write taking every answer the device applies for a success.
WriteErrorAccepts201(ans) ==
    IF ans.err THEN "failed to send DNS request"
    ELSE IF ans.status \notin {200, 201} THEN "DNS operation failed with status"
    ELSE Nil

\* The answer handling of the write in updateDNSRecord: the error it returns.
WriteError(ans) ==
    IF ans.err THEN "failed to send DNS request"
    ELSE IF ans.status # StatusOK THEN "DNS operation failed with status"
    ELSE Nil

\* The search loop without its break: the last entry whose key is hostname.
LastEntry(es, hostname) ==
    LET is == {i \in 1..Len(es) : es[i].Key = hostname}
    IN  IF is = {} THEN 0 ELSE Max(is)

\* The search loop of updateDNSRecord: the index of the first entry whose key is
\* hostname, 0 when there is none.
FirstEntry(es, hostname) ==
    LET is == {i \in 1..Len(es) : es[i].Key = hostname}
    IN  IF is = {} THEN 0 ELSE Min(is)

\* Decide without the comparison of the entry's value with ip: a found entry is
\* always updated.
DecideNoCompare(es, hostname, ip) ==
    IF FirstEntry(es, hostname) = 0 THEN "create" ELSE "update"

\* Decide that never finds the entry: every call creates.
DecideNeverFound(es, hostname, ip) == "create"

\* What updateDNSRecord decides from the entries: "noop", "update" or "create".
Decide(es, hostname, ip) ==
    LET i == FirstEntry(es, hostname)
    IN  IF i = 0 THEN "create"
        ELSE IF es[i].Value = ip THEN "noop"
        ELSE "update"

\* The PUT payload with the entry's old value in place of ip.
UpdatePayloadKeepsValue(hostname, ip, entry) ==
    [key |-> hostname, record_type |-> "A", value |-> entry.Value, enabled |-> TRUE,
     id |-> entry.ID]

\* The payloads of the PUT and of the POST (unifi_api.go 193-236).
UpdatePayload(hostname, ip, entry) ==
    [key |-> hostname, record_type |-> "A", value |-> ip, enabled |-> TRUE, id |-> entry.ID]

\* The POST payload with the record disabled.
CreatePayloadDisabled(hostname, ip) ==
    [key |-> hostname, record_type |-> "A", value |-> ip, enabled |-> FALSE, id |-> 0]

CreatePayload(hostname, ip) ==
    [key |-> hostname, record_type |-> "A", value |-> ip, enabled |-> TRUE, id |-> 0]


\* A write answer the device can give: it accepts a create only below capacity.
WriteAnswersFor(recs, isCreate) ==
    {a \in WriteAnswers : (Accepted(a) /\ isCreate) => Len(recs) < MaxRecords}

Writes(log) == Cardinality({i \in 1..Len(log) : log[i].kind \in {"create", "update"}})
Kinds(log) == [i \in 1..Len(log) |-> log[i].kind]

\* The device the requests of client c go to.
HostOf(c) == unifiClients[c].baseURL[2]

NoArgs == [client |-> 0, hostname |-> NoStr, ip |-> "", fresh |-> FALSE]

\* updateDNSRecord has returned to task t's caller: its locals are gone.
EndCall(t) ==
    /\ upc' = [upc EXCEPT ![t] = "idle"]
    /\ uargs' = [uargs EXCEPT ![t] = NoArgs]
    /\ entries' = [entries EXCEPT ![t] = <<>>]
    /\ existingEntry' = [existingEntry EXCEPT ![t] = NoEntry]
    /\ uerr' = [uerr EXCEPT ![t] = Nil]
    /\ reqs' = [reqs EXCEPT ![t] = <<>>]

\* Entry of client.updateDNSRecord(hostname, ip) by task t.
BeginCall(t, c, hostname, ip) ==
    /\ upc' = [upc EXCEPT ![t] = "get"]
    /\ uargs' = [uargs EXCEPT ![t] =
          [client |-> c, hostname |-> hostname, ip |-> ip,
           fresh |-> Decide(DecodeEntries(records[HostOf(c)]), hostname, ip) # "noop"]]
    /\ entries' = [entries EXCEPT ![t] = <<>>]
    /\ existingEntry' = [existingEntry EXCEPT ![t] = NoEntry]
    /\ uerr' = [uerr EXCEPT ![t] = Nil]
    /\ reqs' = [reqs EXCEPT ![t] = <<>>]

\* GetStaticDNSEntries logging in whether or not it has a token.
LoginStepAlways(t) ==
    /\ upc[t] = "get"
    /\ LET c == uargs[t].client
       IN  \E ans \in LoginAnswers :
              LET r == login(unifiClients[c], ans)
              IN  /\ unifiClients' = [unifiClients EXCEPT ![c] = r.client]
                  /\ reqs' = [reqs EXCEPT ![t] =
                        Append(@, Req("login", c, unifiClients[c].csrfToken, 0, NoPayload, ans.status))]
                  /\ upc' = [upc EXCEPT ![t] = IF r.err = Nil THEN "list" ELSE "done"]
                  /\ uerr' = [uerr EXCEPT ![t] =
                        IF r.err = Nil THEN Nil ELSE "failed to login before getting DNS entries"]
    /\ UNCHANGED <<httpVars, newVars, passVars, loopVars, records, uargs, entries, existingEntry, prev>>

\* GetStaticDNSEntries logging in again after a login that failed.
LoginStepRetries(t) ==
    /\ upc[t] = "get"
    /\ LET c == uargs[t].client
       IN  /\ unifiClients[c].csrfToken = ""
           /\ \E ans \in LoginAnswers :
                 LET r == login(unifiClients[c], ans)
                 IN  /\ unifiClients' = [unifiClients EXCEPT ![c] = r.client]
                     /\ reqs' = [reqs EXCEPT ![t] =
                           Append(@, Req("login", c, "", 0, NoPayload, ans.status))]
                     /\ upc' = [upc EXCEPT ![t] =
                           IF r.err = Nil THEN "list"
                           ELSE IF Len(reqs[t]) = 0 THEN "get" ELSE "done"]
                     /\ uerr' = [uerr EXCEPT ![t] =
                           IF r.err = Nil \/ Len(reqs[t]) = 0 THEN Nil
                           ELSE "failed to login before getting DNS entries"]
    /\ UNCHANGED <<httpVars, newVars, passVars, loopVars, records, uargs, entries, existingEntry, prev>>

\* GetStaticDNSEntries finds no token and logs in (unifi_api.go 118-122).
LoginStep(t) ==
    /\ upc[t] = "get"
    /\ LET c == uargs[t].client
       IN  /\ unifiClients[c].csrfToken = ""
           /\ \E ans \in LoginAnswers :
                 LET r == login(unifiClients[c], ans)
                 IN  /\ unifiClients' = [unifiClients EXCEPT ![c] = r.client]
                     /\ reqs' = [reqs EXCEPT ![t] =
                           Append(@, Req("login", c, "", 0, NoPayload, ans.status))]
                     /\ upc' = [upc EXCEPT ![t] = IF r.err = Nil THEN "list" ELSE "done"]
                     /\ uerr' = [uerr EXCEPT ![t] =
                           IF r.err = Nil THEN Nil ELSE "failed to login before getting DNS entries"]
    /\ UNCHANGED <<httpVars, newVars, passVars, loopVars, records, uargs, entries, existingEntry, prev>>

\* GetStaticDNSEntries sends the list request, and updateDNSRecord searches the
\* entries it returned (unifi_api.go 124-181).
ListStep(t) ==
    /\ LET c == uargs[t].client
       IN  /\ \/ upc[t] = "list"
              \/ upc[t] = "get" /\ unifiClients[c].csrfToken # ""
           /\ \E ans \in ListAnswers :
                 LET e == ListError(ans)
                     es == DecodeEntries(records[HostOf(c)])
                     d == Decide(es, uargs[t].hostname, uargs[t].ip)
                 IN  /\ reqs' = [reqs EXCEPT ![t] =
                           Append(@, Req("list", c, unifiClients[c].csrfToken, 0, NoPayload, ans.status))]
                     /\ IF e # Nil
                        THEN /\ uerr' = [uerr EXCEPT ![t] = e]
                             /\ upc' = [upc EXCEPT ![t] = "done"]
                             /\ UNCHANGED <<entries, existingEntry>>
                        ELSE /\ entries' = [entries EXCEPT ![t] = es]
                             /\ existingEntry' = [existingEntry EXCEPT ![t] =
                                   IF d = "create" THEN NoEntry
                                   ELSE es[FirstEntry(es, uargs[t].hostname)]]
                             /\ upc' = [upc EXCEPT ![t] = IF d = "noop" THEN "done" ELSE "write"]
                             /\ UNCHANGED uerr
    /\ UNCHANGED <<httpVars, newVars, passVars, loopVars, unifiClients, records, uargs, prev>>

\* The rest of updateDNSRecord: the token check, the PUT or POST, its answer
\* (unifi_api.go 183-263).  The device applies the write it accepts.
WriteStep(t) ==
    /\ upc[t] = "write"
    /\ LET c == uargs[t].client
           h == HostOf(c)
           needLogin == unifiClients[c].csrfToken = ""
           isCreate == existingEntry[t] = NoEntry
           payload == IF isCreate THEN CreatePayload(uargs[t].hostname, uargs[t].ip)
                      ELSE UpdatePayload(uargs[t].hostname, uargs[t].ip, existingEntry[t])
       IN  \E la \in (IF needLogin THEN LoginAnswers ELSE {[err |-> FALSE, status |-> StatusOK, token |-> "csrf"]}),
              wa \in WriteAnswersFor(records[h], isCreate) :
              LET r == IF needLogin THEN login(unifiClients[c], la)
                       ELSE [client |-> unifiClients[c], err |-> Nil]
                  loginLog == IF needLogin
                              THEN <<Req("login", c, "", 0, NoPayload, la.status)>>
                              ELSE <<>>
                  writeReq == Req(IF isCreate THEN "create" ELSE "update", c,
                                  r.client.csrfToken, existingEntry[t].ID, payload, wa.status)
              IN  /\ unifiClients' = [unifiClients EXCEPT ![c] = r.client]
                  /\ upc' = [upc EXCEPT ![t] = "done"]
                  /\ IF r.err # Nil
                     THEN /\ reqs' = [reqs EXCEPT ![t] = @ \o loginLog]
                          /\ uerr' = [uerr EXCEPT ![t] = "failed to login before updating DNS"]
                          /\ UNCHANGED records
                     ELSE /\ reqs' = [reqs EXCEPT ![t] = @ \o loginLog \o <<writeReq>>]
                          /\ uerr' = [uerr EXCEPT ![t] = WriteError(wa)]
                          /\ records' = [records EXCEPT ![h] =
                                IF ~Accepted(wa) THEN @
                                ELSE IF isCreate THEN DeviceCreate(@, payload)
                                ELSE DeviceUpdate(@, existingEntry[t].ID, payload)]
    /\ UNCHANGED <<httpVars, newVars, passVars, loopVars, uargs, entries, existingEntry, prev>>

\* What is kept of a finished call for the next one on the same client.
Summary(t) ==
    [valid |-> TRUE, hostname |-> uargs[t].hostname, ip |-> uargs[t].ip,
     fresh |-> uargs[t].fresh, err |-> uerr[t], writes |-> Writes(reqs[t])]

NoSummary ==
    [valid |-> FALSE, hostname |-> NoStr, ip |-> "", fresh |-> FALSE, err |-> Nil, writes |-> 0]

\* --------------------------------------------------- the client's caller
\* A caller holding a client calls client.updateDNSRecord(hostname, ip).
CallUpdateDNSRecord(t, c, hostname, ip) ==
    /\ t = "caller"
    /\ upc[t] = "idle"
    /\ BeginCall(t, c, hostname, ip)
    /\ UNCHANGED <<httpVars, newVars, passVars, loopVars, unifiClients, records, prev>>

\* updateDNSRecord returns to that caller.
CallerReturn(t) ==
    /\ t = "caller"
    /\ upc[t] = "done"
    /\ EndCall(t)
    /\ prev' = [prev EXCEPT ![uargs[t].client] = Summary(t)]
    /\ UNCHANGED <<httpVars, newVars, passVars, loopVars, unifiClients, records>>

\* The record lists a device starts with: every list of at most MaxRecords
\* enabled records, ids by position, and one list with a disabled record.
InitialRecordLists ==
    UNION {{[i \in 1..k |-> Record(f[i][1], f[i][2], i, TRUE)] :
               f \in [1..k -> Hostnames \X IPs]} : k \in 0..MaxRecords}
        \cup {<<Record(HostAX, IP2, 1, FALSE)>>}

IdleTasks(S) == [t \in Tasks |-> S]

\* What no specification below starts differently.
InitCommon ==
    /\ devicePatterns = <<>>
    /\ mu = Nil
    /\ lastUpdate = 0
    /\ now = 0
    /\ ppc = IdleTasks("idle")
    /\ localIP = IdleTasks("")
    /\ routers = IdleTasks(<<>>)
    /\ idx = IdleTasks(0)
    /\ perr = IdleTasks(Nil)
    /\ plog = IdleTasks(<<>>)
    /\ pcount = IdleTasks(0)
    /\ upc = IdleTasks("idle")
    /\ uargs = IdleTasks(NoArgs)
    /\ entries = IdleTasks(<<>>)
    /\ existingEntry = IdleTasks(NoEntry)
    /\ uerr = IdleTasks(Nil)
    /\ reqs = IdleTasks(<<>>)
    /\ prev = [c \in ClientIds |-> NoSummary]
    /\ lpc = "off"
    /\ tick = 0
    /\ events = 0
    /\ ctxDone = FALSE
    /\ answer = IdleTasks(NoAnswer)
    /\ inbound = <<>>
    /\ delegated = <<>>

\* A client built by hand, with or without a session from earlier calls, and a
\* device holding any record list.
InitClient ==
    /\ InitCommon
    /\ cfg = CfgDisjoint
    /\ npc = "none"
    /\ \E tok \in {"", "csrf"} :
          unifiClients = (0 :> [NewUniFiClient(<<"udm1">>) EXCEPT !.csrfToken = tok])
    /\ \E l \in InitialRecordLists :
          records = [h \in Hosts |-> IF h = "udm1" THEN l ELSE <<>>]

NextClient ==
    \/ \E c \in DOMAIN unifiClients, hostname \in Hostnames, ip \in IPs :
          CallUpdateDNSRecord("caller", c, hostname, ip)
    \/ LoginStep("caller")
    \/ ListStep("caller")
    \/ WriteStep("caller")
    \/ CallerReturn("caller")

SpecClient == InitClient /\ [][NextClient]_vars


\* ------------------------------------------------------ updateDNS (a pass)
InPass == {"localip", "fetch", "route", "upsert"}

\* One entry of a pass's log: the address lookup ("localip"; ok says whether
\* the host had a suitable address), the route fetch ("fetch"; ok says whether
\* the source answered with a decodable body and status 200), or one router
\* processed ("route", with its index, what became of it, the client chosen
\* and the number of requests sent for it).
Event(ev, ok, i, outcome, client, n) ==
    [ev |-> ev, ok |-> ok, i |-> i, outcome |-> outcome, client |-> client, n |-> n]

HasSuitableAddress(ifaces) ==
    /\ ~ifaces.err
    /\ \E i \in 1..Len(ifaces.addrs) : ~ifaces.addrs[i].loopback /\ ifaces.addrs[i].v4

GoodRouteAnswer(resp) == ~resp.err /\ resp.status = StatusOK /\ resp.decodable

HostCZ == <<"c", ".", "z">>
PathRule == <<"P", "a", "t", "h", "(", Backtick, "/", Backtick, ")">>

\* Raw descriptors of the route source: three marked routes (the marker in a
\* list, as a single string with a provider suffix, in a list beside a number
\* and another middleware), a marked route without a Host rule that carries the
\* marker twice, a route without the marker, and a descriptor whose rule is a
\* number.
RawAX == Raw(JStr(HostRule(Backtick, HostAX)), JList(<<JItemStr(MwMarker)>>))
RawBY == Raw(JStr(HostRule(SQuote, HostBY)), JStr(MwMarkerAtFile))
RawCZ == Raw(JStr(HostRule(DQuote, HostCZ)), JList(<<JItemNum, JItemStr(MwAuth), JItemStr(MwMarker)>>))
RawPath == Raw(JStr(PathRule), JList(<<JItemStr(MwMarker), JItemStr(MwMarker)>>))
RawUnmarked == Raw(JStr(HostRule(Backtick, HostAX)), JList(<<JItemStr(MwAuth)>>))
RawNoRule == Raw(JNum, JStr(MwMarker))

\* The bodies the route source answers with.
RouteBodies ==
    { <<>>,
      <<RawAX, RawBY>>,
      <<RawPath, RawAX>>,
      <<RawAX, RawAX>>,
      <<RawAX, RawCZ, RawBY>>,
      <<RawNoRule, RawUnmarked, RawBY>> }

RouteAnswers ==
    {TransportError}
        \cup {HttpAnswer(st, FALSE, <<>>) : st \in Statuses}
        \cup {HttpAnswer(StatusOK, TRUE, body) : body \in RouteBodies}

\* The clients findMatchingClient can return for hostname: the range over the
\* map devicePatterns visits the clients in an order that differs from call to
\* call, so any client whose pattern matches can be the first one found.
MatchingClientsAll(hostname) == DOMAIN devicePatterns

MatchingClientsFullMatch(hostname) ==
    {c \in DOMAIN devicePatterns : MatchHere(devicePatterns[c] \o <<"$">>, hostname)}

MatchingClients(hostname) ==
    {c \in DOMAIN devicePatterns : MatchString(devicePatterns[c], hostname)}

\* findMatchingClient(hostname): the results it can return.
findMatchingClient(hostname) ==
    IF MatchingClients(hostname) = {} THEN {[client |-> 0 - 1, found |-> FALSE]}
    ELSE {[client |-> c, found |-> TRUE] : c \in MatchingClients(hostname)}

\* mu.Lock() can return: nobody holds the lock.
CanLockAlways(t) == TRUE

CanLock(t) == mu = Nil

\* updateDNS is called by task t, which waits for the lock.
CallUpdateDNS(t) == ppc' = [ppc EXCEPT ![t] = "lock"]

\* updateDNS returns to task t's caller: the deferred u.mu.Unlock() runs and
\* the locals are gone.
ReturnFromUpdateDNS(t) ==
    /\ ppc' = [ppc EXCEPT ![t] = "idle"]
    /\ mu' = Nil
    /\ pcount' = [pcount EXCEPT ![t] = @ + 1]
    /\ localIP' = [localIP EXCEPT ![t] = ""]
    /\ routers' = [routers EXCEPT ![t] = <<>>]
    /\ answer' = [answer EXCEPT ![t] = NoAnswer]
    /\ idx' = [idx EXCEPT ![t] = 0]
    /\ perr' = [perr EXCEPT ![t] = Nil]
    /\ plog' = [plog EXCEPT ![t] = <<>>]

\* u.mu.Lock() returns.
LockStep(t) ==
    /\ ppc[t] = "lock"
    /\ CanLock(t)
    /\ mu' = t
    /\ now' = now + 1
    /\ ppc' = [ppc EXCEPT ![t] = "localip"]
    /\ plog' = [plog EXCEPT ![t] = <<>>]
    /\ UNCHANGED <<httpVars, newVars, loopVars, callVars, unifiClients, records, prev, lastUpdate,
                   localIP, routers, answer, idx, perr, pcount>>

\* getLocalIP and its error return (the deferred Unlock runs).
LocalIPStep(t) ==
    /\ ppc[t] = "localip"
    /\ \E ifaces \in InterfaceAnswers :
          LET r == getLocalIP(ifaces)
          IN  /\ plog' = [plog EXCEPT ![t] =
                    Append(@, Event("localip", HasSuitableAddress(ifaces), 0, "", 0 - 1, 0))]
              /\ IF r.err # Nil
                 THEN /\ perr' = [perr EXCEPT ![t] = "failed to get local IP"]
                      /\ ppc' = [ppc EXCEPT ![t] = "ret"]
                      /\ UNCHANGED localIP
                 ELSE /\ localIP' = [localIP EXCEPT ![t] = r.ip]
                      /\ ppc' = [ppc EXCEPT ![t] = "fetch"]
                      /\ UNCHANGED perr
    /\ UNCHANGED <<httpVars, newVars, loopVars, callVars, unifiClients, records, prev, lastUpdate,
                   now, routers, answer, idx, mu, pcount>>

\* u.traefikClient.GetRouters() and its error return, the route source answering
\* with one of answers; observed says whether the answer is kept in answer.
FetchStepFrom(t, answers, observed) ==
    /\ ppc[t] = "fetch"
    /\ \E resp \in answers :
          LET r == GetRouters(resp)
          IN  /\ answer' = IF observed THEN [answer EXCEPT ![t] = resp] ELSE answer
              /\ plog' = [plog EXCEPT ![t] =
                    Append(@, Event("fetch", GoodRouteAnswer(resp), 0, "", 0 - 1, 0))]
              /\ IF r.err # Nil
                 THEN /\ perr' = [perr EXCEPT ![t] = "failed to get Traefik routers"]
                      /\ ppc' = [ppc EXCEPT ![t] = "ret"]
                      /\ UNCHANGED <<routers, idx>>
                 ELSE /\ routers' = [routers EXCEPT ![t] = r.routers]
                      /\ idx' = [idx EXCEPT ![t] = 1]
                      /\ ppc' = [ppc EXCEPT ![t] = "route"]
                      /\ UNCHANGED perr
    /\ UNCHANGED <<httpVars, newVars, loopVars, callVars, unifiClients, records, prev, lastUpdate,
                   now, localIP, mu, pcount>>

\* The fetch of a pass of the plugin: the route source answers with one of
\* RouteAnswers.
FetchStep(t) == FetchStepFrom(t, RouteAnswers, FALSE)

\* The loop over the routers passing over the router that follows.
AfterRouteSkipsNext(i, n, err) == i + 2

\* The index the loop over the routers goes to after the router at i, whose
\* processing ended with err: the loop continues in every case.
AfterRouteStopOnError(i, n, err) == IF err # Nil THEN n + 1 ELSE i + 1

AfterRoute(i, n, err) == i + 1

\* One iteration of the loop over the routers, up to the call of
\* client.updateDNSRecord (unifidns.go 166-187).
RouteStep(t) ==
    /\ ppc[t] = "route"
    /\ idx[t] <= Len(routers[t])
    /\ LET router == routers[t][idx[t]]
           hostname == extractHostname(router.Rule)
       IN  \E m \in findMatchingClient(hostname) :
              IF router.Rule = <<>> \/ hostname = <<>> \/ ~m.found
              THEN /\ plog' = [plog EXCEPT ![t] =
                         Append(@, Event("route", TRUE, idx[t],
                                         IF router.Rule = <<>> THEN "norule"
                                         ELSE IF hostname = <<>> THEN "nohost"
                                         ELSE "nomatch",
                                         0 - 1, 0))]
                   /\ idx' = [idx EXCEPT ![t] = AfterRoute(@, Len(routers[t]), Nil)]
                   /\ UNCHANGED <<ppc, callVars>>
              ELSE /\ BeginCall(t, m.client, hostname, localIP[t])
                   /\ ppc' = [ppc EXCEPT ![t] = "upsert"]
                   /\ UNCHANGED <<plog, idx>>
    /\ UNCHANGED <<httpVars, newVars, loopVars, unifiClients, records, prev, mu, lastUpdate, now,
                   localIP, routers, answer, perr, pcount>>

\* client.updateDNSRecord returns to the loop over the routers, which logs the
\* outcome and goes on (unifidns.go 187-192).
RouteReturn(t) ==
    /\ ppc[t] = "upsert"
    /\ upc[t] = "done"
    /\ EndCall(t)
    /\ plog' = [plog EXCEPT ![t] =
          Append(@, Event("route", uerr[t] = Nil, idx[t], "upsert", uargs[t].client, Len(reqs[t])))]
    /\ idx' = [idx EXCEPT ![t] = AfterRoute(@, Len(routers[t]), uerr[t])]
    /\ ppc' = [ppc EXCEPT ![t] = "route"]
    /\ UNCHANGED <<httpVars, newVars, loopVars, unifiClients, records, prev, mu, lastUpdate, now,
                   localIP, routers, answer, perr, pcount>>

\* What updateDNS returns after the loop over the routers, whose outcomes are
\* in log: nil (unifidns.go 196).
updateDNSReturnsRouteError(log) ==
    IF \E i \in 1..Len(log) : log[i].ev = "route" /\ ~log[i].ok
    THEN "failed to update DNS record"
    ELSE Nil

updateDNSReturn(log) == Nil

\* The end of the loop over the routers setting lastUpdate only where no
\* router has failed.
PassFinishStampsOnSuccessOnly(t) ==
    /\ ppc[t] = "route"
    /\ idx[t] > Len(routers[t])
    /\ lastUpdate' = IF \E i \in 1..Len(plog[t]) : plog[t][i].ev = "route" /\ ~plog[t][i].ok
                     THEN lastUpdate ELSE now
    /\ perr' = [perr EXCEPT ![t] = updateDNSReturn(plog[t])]
    /\ ppc' = [ppc EXCEPT ![t] = "ret"]
    /\ UNCHANGED <<httpVars, newVars, loopVars, callVars, unifiClients, records, prev, now, localIP,
                   routers, answer, idx, plog, mu, pcount>>

\* The loop over the routers is over: lastUpdate is set and updateDNS is at
\* its return nil.
PassFinish(t) ==
    /\ ppc[t] = "route"
    /\ idx[t] > Len(routers[t])
    /\ lastUpdate' = now
    /\ perr' = [perr EXCEPT ![t] = updateDNSReturn(plog[t])]
    /\ ppc' = [ppc EXCEPT ![t] = "ret"]
    /\ UNCHANGED <<httpVars, newVars, loopVars, callVars, unifiClients, records, prev, now, localIP,
                   routers, answer, idx, plog, mu, pcount>>

\* -------------------------------------------------------------------- New
\* The index of the first device New rejects, 0 when it rejects none.
FirstBadDeviceNoEmptyCheck(devices) ==
    LET bad == {i \in 1..Len(devices) : ~CompileOK(devices[i].Pattern)}
    IN  IF bad = {} THEN 0 ELSE Min(bad)

FirstBadDevice(devices) ==
    LET bad == {i \in 1..Len(devices) :
                   devices[i].Pattern = <<>> \/ ~CompileOK(devices[i].Pattern)}
    IN  IF bad = {} THEN 0 ELSE Min(bad)

\* Where the update goroutine stands while New runs its own first pass.
LoopDuringInitialStarted == "select"

LoopDuringInitial == "off"

\* New building every client for the host of the first device.
NewStartOneHost ==
    /\ npc = "start"
    /\ IF ~ParseDurationOK(cfg.UpdateInterval) \/ FirstBadDevice(cfg.Devices) # 0
       THEN /\ npc' = "failed"
            /\ UNCHANGED <<unifiClients, devicePatterns, ppc, lpc>>
       ELSE /\ npc' = "initial"
            /\ unifiClients' = [i \in 0..(Len(cfg.Devices) - 1) |->
                                   NewUniFiClient(cfg.Devices[1].Host)]
            /\ devicePatterns' = [i \in 0..(Len(cfg.Devices) - 1) |->
                                     cfg.Devices[i + 1].Pattern]
            /\ CallUpdateDNS("new")
            /\ lpc' = LoopDuringInitial
    /\ UNCHANGED <<httpVars, cfg, callVars, records, prev, mu, lastUpdate, now, localIP, routers, answer, idx,
                   perr, plog, pcount, tick, events, ctxDone>>

\* New up to its call of updateDNS: the interval is parsed, the patterns are
\* compiled, the clients are built (unifidns.go 55-98).
NewStart ==
    /\ npc = "start"
    /\ IF ~ParseDurationOK(cfg.UpdateInterval) \/ FirstBadDevice(cfg.Devices) # 0
       THEN /\ npc' = "failed"
            /\ UNCHANGED <<unifiClients, devicePatterns, ppc, lpc>>
       ELSE /\ npc' = "initial"
            /\ unifiClients' = [i \in 0..(Len(cfg.Devices) - 1) |->
                                   NewUniFiClient(cfg.Devices[i + 1].Host)]
            /\ devicePatterns' = [i \in 0..(Len(cfg.Devices) - 1) |->
                                     cfg.Devices[i + 1].Pattern]
            /\ CallUpdateDNS("new")
            /\ lpc' = LoopDuringInitial
    /\ UNCHANGED <<httpVars, cfg, callVars, records, prev, mu, lastUpdate, now, localIP, routers, answer, idx,
                   perr, plog, pcount, tick, events, ctxDone>>

\* The first pass has returned: New starts the goroutine and returns the
\* handler (unifidns.go 98-106).
NewFinish ==
    /\ npc = "initial"
    /\ ppc["new"] = "ret"
    /\ ReturnFromUpdateDNS("new")
    /\ lpc' = IF lpc = "off" THEN "select" ELSE lpc
    /\ npc' = "returned"
    /\ UNCHANGED <<httpVars, cfg, devicePatterns, callVars, unifiClients, records, prev, lastUpdate,
                   now, tick, events, ctxDone>>

\* ------------------------------------------------------------- updateLoop
\* The case with which the loop parked in select resumes, by what woke it.
SelectWakeAlwaysTick(ready) == "wokenTick"

SelectWake(ready) == IF ready = "done" THEN "wokenDone" ELSE "wokenTick"

\* The ticker fires: a tick is handed to the loop where it is parked in select,
\* and is put in ticker.C otherwise, unless one is waiting there.
Tick ==
    /\ lpc \in {"select", "parked", "wokenTick", "wokenDone", "pass"}
    /\ events < MaxEvents
    /\ tick = 0
    /\ events' = events + 1
    /\ IF lpc = "parked"
       THEN lpc' = SelectWake("tick") /\ UNCHANGED tick
       ELSE tick' = 1 /\ UNCHANGED lpc
    /\ UNCHANGED <<httpVars, newVars, passVars, callVars, unifiClients, records, prev, ctxDone>>

\* The context handed to New is cancelled: ctx.Done() is closed, which wakes
\* the loop where it is parked in select.
Cancel ==
    /\ ~ctxDone
    /\ ctxDone' = TRUE
    /\ lpc' = IF lpc = "parked" THEN SelectWake("done") ELSE lpc
    /\ UNCHANGED <<httpVars, newVars, passVars, callVars, unifiClients, records, prev, tick, events>>

\* select with no case ready: the loop parks until a case becomes ready.
LoopPark ==
    /\ lpc = "select"
    /\ tick = 0
    /\ ~ctxDone
    /\ lpc' = "parked"
    /\ UNCHANGED <<httpVars, newVars, passVars, callVars, unifiClients, records, prev, tick, events,
                   ctxDone>>

\* select: case <-ticker.C, the loop calls updateDNS. The case is taken where
\* a tick is ready when select is evaluated (whether or not ctx.Done() is
\* ready too), and where a tick woke the parked loop.
LoopTick ==
    /\ \/ lpc = "select" /\ tick = 1 /\ tick' = 0
       \/ lpc = "wokenTick" /\ UNCHANGED tick
    /\ lpc' = "pass"
    /\ CallUpdateDNS("loop")
    /\ UNCHANGED <<httpVars, newVars, callVars, unifiClients, records, prev, pcount, mu, lastUpdate, now,
                   localIP, routers, answer, idx, perr, plog, events, ctxDone>>

\* The loop giving up after a pass that returned an error.
LoopReturnStopsOnError ==
    /\ lpc = "pass"
    /\ ppc["loop"] = "ret"
    /\ ReturnFromUpdateDNS("loop")
    /\ lpc' = IF perr["loop"] # Nil THEN "stopped" ELSE "select"
    /\ UNCHANGED <<httpVars, newVars, callVars, unifiClients, records, prev, lastUpdate, now,
                   tick, events, ctxDone>>

\* updateDNS returns to the loop, which logs its error and selects again.
LoopReturn ==
    /\ lpc = "pass"
    /\ ppc["loop"] = "ret"
    /\ ReturnFromUpdateDNS("loop")
    /\ lpc' = "select"
    /\ UNCHANGED <<httpVars, newVars, callVars, unifiClients, records, prev, lastUpdate, now,
                   tick, events, ctxDone>>

\* The loop returning at the cancellation while its pass is running.
LoopStopInterruptsPass ==
    /\ \/ lpc \in {"select", "pass"} /\ ctxDone
       \/ lpc = "wokenDone"
    /\ lpc' = "stopped"
    /\ UNCHANGED <<httpVars, newVars, passVars, callVars, unifiClients, records, prev, tick, events,
                   ctxDone>>

\* select: case <-ctx.Done(), the loop returns. The case is taken where the
\* context is done when select is evaluated (whether or not a tick is ready
\* too), and where the cancellation woke the parked loop.
LoopStop ==
    /\ \/ lpc = "select" /\ ctxDone
       \/ lpc = "wokenDone"
    /\ lpc' = "stopped"
    /\ UNCHANGED <<httpVars, newVars, passVars, callVars, unifiClients, records, prev, tick, events,
                   ctxDone>>

\* ------------------------------------------- a direct caller of updateDNS
\* Code holding the handler New returned calls its updateDNS.
DirectCall ==
    /\ npc = "returned"
    /\ ppc["direct"] = "idle"
    /\ events < MaxEvents
    /\ events' = events + 1
    /\ CallUpdateDNS("direct")
    /\ UNCHANGED <<httpVars, newVars, callVars, unifiClients, records, prev, pcount, mu, lastUpdate, now,
                   localIP, routers, answer, idx, perr, plog, lpc, tick, ctxDone>>

DirectReturn ==
    /\ ppc["direct"] = "ret"
    /\ ReturnFromUpdateDNS("direct")
    /\ UNCHANGED <<httpVars, newVars, callVars, unifiClients, records, prev, lastUpdate, now,
                   loopVars>>

\* ------------------------------------------------------ the whole plugin
PassTasks == {"new", "loop", "direct"}

\* What the first device holds when the plugin starts: a record of an earlier
\* run, made when the host had another address.
StaleRecords == <<Record(HostAX, IP2, 1, TRUE)>>

\* New is about to be called with any of the configurations; the second device
\* holds no record.
Init ==
    /\ InitCommon
    /\ cfg \in Configs
    /\ npc = "start"
    /\ unifiClients = <<>>
    /\ records = [h \in Hosts |-> IF h = "udm1" THEN StaleRecords ELSE <<>>]

Next ==
    \/ NewStart
    \/ NewFinish
    \/ Tick
    \/ Cancel
    \/ LoopPark
    \/ LoopTick
    \/ LoopReturn
    \/ LoopStop
    \/ DirectCall
    \/ DirectReturn
    \/ \E t \in PassTasks :
          \/ LockStep(t)
          \/ LocalIPStep(t)
          \/ FetchStep(t)
          \/ RouteStep(t)
          \/ RouteReturn(t)
          \/ PassFinish(t)
          \/ LoginStep(t)
          \/ ListStep(t)
          \/ WriteStep(t)

Spec == Init /\ [][Next]_vars

\* ------------------------------------------ the first pass over one route
\* Rules of one route, as the route source can hold them.
And == <<" ", "&", "&", " ">>
HostAXC == <<"a", ".", "x", ".", "c">>
Quotes == {Backtick, SQuote, DQuote}
MixedQuotes == {p \in Quotes \X Quotes : p[1] # p[2]}

\* Host(<open><arg><close>) and Path(<open>/<close>)
HostPred(open, arg, close) == <<"H", "o", "s", "t", "(">> \o open \o arg \o close \o <<")">>
PathPred(open, close) == <<"P", "a", "t", "h", "(">> \o open \o <<"/">> \o close \o <<")">>

\* What stands before and after the Host predicate: nothing, a path predicate
\* before it, a path predicate after it.
Contexts == {<<NoStr, NoStr>>, <<PathRule \o And, NoStr>>, <<NoStr, And \o PathRule>>}

\* The literals of a Host predicate: a hostname, bare or with spaces around it,
\* and a lone space.
Literals ==
    {lpad \o core \o rpad :
        lpad \in {NoStr, <<Space>>}, rpad \in {NoStr, <<Space>>},
        core \in {HostAX, HostBY, HostCZ, HostAXC}}
      \cup {<<Space>>}

\* Rules with one Host predicate whose argument is a literal in one of the three
\* delimiter styles, each with the literal it carries.
QuotedRules ==
    {[rule |-> c[1] \o HostPred(<<q>>, lit, <<q>>) \o c[2], literal |-> lit] :
        c \in Contexts, q \in Quotes, lit \in Literals}

\* Rules without a Host predicate.
NoHostRules == {PathRule, PathRule \o And \o PathPred(<<DQuote>>, <<DQuote>>)}

\* Rules whose Host predicate has an unquoted argument, or an argument with a
\* delimiter on one side only, or with two different delimiters; the other
\* predicate of the rule, where there is one, is well-formed or has the same
\* two delimiters the other way round.
MalformedHostPreds ==
    {HostPred(NoStr, HostAX, NoStr)}
      \cup {HostPred(<<q>>, HostAX, NoStr) : q \in Quotes}
      \cup {HostPred(NoStr, HostAX, <<q>>) : q \in Quotes}
      \cup {HostPred(<<p[1]>>, HostAX, <<p[2]>>) : p \in MixedQuotes}

MalformedRules ==
    {c[1] \o h \o c[2] : c \in Contexts, h \in MalformedHostPreds}
      \cup {HostPred(<<p[1]>>, HostAX, <<p[2]>>) \o And \o PathPred(<<p[2]>>, <<p[1]>>) :
                p \in MixedQuotes}

\* Rules with two or three Host predicates, each in a delimiter style of its
\* own and with a hostname of its own, in every order.
Or == <<" ", "|", "|", " ">>

StyleLiteral(q) == IF q = Backtick THEN HostAX ELSE IF q = SQuote THEN HostBY ELSE HostCZ

StyleOrders ==
    {<<p[1], p[2]>> : p \in MixedQuotes}
      \cup {o \in Quotes \X Quotes \X Quotes : Cardinality({o[1], o[2], o[3]}) = 3}

StyledHost(q) == HostPred(<<q>>, StyleLiteral(q), <<q>>)

MultiStyleRule(o) ==
    StyledHost(o[1]) \o Or \o StyledHost(o[2])
        \o (IF Len(o) = 3 THEN Or \o StyledHost(o[3]) ELSE NoStr)

MultiStyleRules == {[rule |-> MultiStyleRule(o), styles |-> o] : o \in StyleOrders}

Rules ==
    {r.rule : r \in QuotedRules} \cup NoHostRules \cup MalformedRules
      \cup {r.rule : r \in MultiStyleRules}

\* The route source answers with one marked route.
RuleAnswers == {HttpAnswer(StatusOK, TRUE, <<Raw(JStr(rule), JStr(MwMarker))>>) : rule \in Rules}

\* New is about to be called with disjoint patterns, overlapping patterns or
\* one pattern that matches every hostname.
InitRoute ==
    /\ InitCommon
    /\ cfg \in {CfgDisjoint, CfgOverlap, CfgCatchAll}
    /\ npc = "start"
    /\ unifiClients = <<>>
    /\ records = [h \in Hosts |-> IF h = "udm1" THEN StaleRecords ELSE <<>>]

\* New and its first pass.
NextRoute ==
    \/ NewStart
    \/ NewFinish
    \/ LockStep("new")
    \/ LocalIPStep("new")
    \/ FetchStepFrom("new", RuleAnswers, TRUE)
    \/ RouteStep("new")
    \/ RouteReturn("new")
    \/ PassFinish("new")
    \/ LoginStep("new")
    \/ ListStep("new")
    \/ WriteStep("new")

SpecRoute == InitRoute /\ [][NextRoute]_vars

\* ------------------------------------------- the update loop, scheduled
\* The route source while the loop is observed: it fails, or answers with a
\* marked route that carries no hostname.
LoopRouteAnswers == {TransportError, HttpAnswer(StatusOK, TRUE, <<RawPath>>)}

\* A step of updateDNS in task t.
PassStep(t) ==
    \/ LockStep(t)
    \/ LocalIPStep(t)
    \/ FetchStepFrom(t, LoopRouteAnswers, FALSE)
    \/ RouteStep(t)
    \/ PassFinish(t)

\* New is about to be called with a valid configuration.
InitLoop ==
    /\ InitCommon
    /\ cfg = CfgDisjoint
    /\ npc = "start"
    /\ unifiClients = <<>>
    /\ records = [h \in Hosts |-> IF h = "udm1" THEN StaleRecords ELSE <<>>]

NextLoop ==
    \/ NewStart
    \/ NewFinish
    \/ Tick
    \/ Cancel
    \/ LoopPark
    \/ LoopTick
    \/ LoopReturn
    \/ LoopStop
    \/ DirectCall
    \/ DirectReturn
    \/ \E t \in PassTasks : PassStep(t)

\* A step of a goroutine that has something to do other than the choice of
\* case <-ctx.Done(): a pass goes on, New returns after its pass, a caller
\* whose updateDNS has returned goes on, the loop with a tick in hand calls
\* updateDNS.
GoroutineStep ==
    \/ NewFinish
    \/ LoopTick
    \/ LoopReturn
    \/ DirectReturn
    \/ \E t \in PassTasks : PassStep(t)

\* The goroutines run, and a select that can take case <-ctx.Done() again and
\* again takes it at last, the choice among the ready cases being uniformly
\* random.
SpecLoopFair ==
    /\ InitLoop
    /\ [][NextLoop]_vars
    /\ WF_vars(GoroutineStep)
    /\ SF_vars(LoopStop)

\* --------------------------------------------------------------- ServeHTTP
\* The requests the server hands to the handler, each with its response writer.
Inbound == {[req |-> "GET /", rw |-> "rw1"], [req |-> "GET /api", rw |-> "rw2"]}

\* ServeHTTP goes on to its call of next.ServeHTTP while the lock is free only.
ServeHTTPWaitsForLock(k) == mu = Nil

\* ServeHTTP goes on to its call of next.ServeHTTP: it takes no lock and waits
\* for nothing (unifidns.go 109-110).
ServeHTTPCanProceed(k) == TRUE

\* The arguments ServeHTTP hands to next.ServeHTTP: its own (unifidns.go 110).
ServeHTTPArguments(call) == [req |-> call.req, rw |-> call.rw]

\* The server calls ServeHTTP of the handler New returned, for any request and
\* concurrently with the calls in progress.
ServeHTTPCall ==
    /\ npc = "returned"
    /\ Len(inbound) < MaxRequests
    /\ \E call \in Inbound :
          inbound' = Append(inbound, [req |-> call.req, rw |-> call.rw, pc |-> "called"])
    /\ UNCHANGED <<delegated, newVars, passVars, loopVars, callVars, unifiClients, records, prev>>

\* u.next.ServeHTTP(rw, req) is called for the k-th call of ServeHTTP; holder
\* is who holds the lock of updateDNS at that moment.
ServeHTTPDelegate(k) ==
    /\ k \in 1..Len(inbound)
    /\ inbound[k].pc = "called"
    /\ ServeHTTPCanProceed(k)
    /\ inbound' = [inbound EXCEPT ![k].pc = "next"]
    /\ delegated' = Append(delegated,
          [call |-> k, args |-> ServeHTTPArguments(inbound[k]), holder |-> mu])
    /\ UNCHANGED <<newVars, passVars, loopVars, callVars, unifiClients, records, prev>>

\* next.ServeHTTP returns; ServeHTTP logs the request and returns.
ServeHTTPReturn(k) ==
    /\ k \in 1..Len(inbound)
    /\ inbound[k].pc = "next"
    /\ inbound' = [inbound EXCEPT ![k].pc = "done"]
    /\ UNCHANGED <<delegated, newVars, passVars, loopVars, callVars, unifiClients, records, prev>>

\* The route source while requests are served: it fails, or answers with
\* marked routes that no device of the configuration matches or that carry no
\* hostname.
ServeRouteAnswers == {TransportError, HttpAnswer(StatusOK, TRUE, <<RawCZ, RawPath>>)}

\* New is about to be called with a valid configuration.
InitServe ==
    /\ InitCommon
    /\ cfg = CfgDisjoint
    /\ npc = "start"
    /\ unifiClients = <<>>
    /\ records = [h \in Hosts |-> IF h = "udm1" THEN StaleRecords ELSE <<>>]

\* The handler serves requests while the update loop runs its passes.
NextServe ==
    \/ NewStart
    \/ NewFinish
    \/ Tick
    \/ LoopPark
    \/ LoopTick
    \/ LoopReturn
    \/ ServeHTTPCall
    \/ \E k \in 1..MaxRequests :
          \/ ServeHTTPDelegate(k)
          \/ ServeHTTPReturn(k)
    \/ \E t \in {"new", "loop"} :
          \/ LockStep(t)
          \/ LocalIPStep(t)
          \/ FetchStepFrom(t, ServeRouteAnswers, FALSE)
          \/ RouteStep(t)
          \/ PassFinish(t)

SpecServe == InitServe /\ [][NextServe]_vars

\* ---------------------------------------------- the fetch of the first pass
\* Raw descriptors beside those of RouteBodies: the rule an empty string or
\* absent, the middlewares absent, a number, an empty list, a single string
\* without the marker.
RawEmptyRule == Raw(JStr(NoStr), JStr(MwMarker))
RawAbsentRule == Raw(JAbsent, JList(<<JItemStr(MwMarker)>>))
RawNoMiddlewares == Raw(JStr(HostRule(Backtick, HostBY)), JAbsent)
RawNumMiddlewares == Raw(JStr(HostRule(Backtick, HostCZ)), JNum)
RawEmptyList == Raw(JStr(HostRule(SQuote, HostAX)), JList(<<>>))
RawSingleAuth == Raw(JStr(HostRule(DQuote, HostBY)), JStr(MwAuth))

RawKinds ==
    {RawAX, RawBY, RawCZ, RawPath, RawUnmarked, RawNoRule, RawEmptyRule, RawAbsentRule,
     RawNoMiddlewares, RawNumMiddlewares, RawEmptyList, RawSingleAuth}

\* The route source answers with an error of the transport, or with any status
\* and a body that cannot be decoded or that decodes to at most MaxRaw
\* descriptors.
FetchAnswers ==
    {TransportError}
        \cup {HttpAnswer(st, FALSE, <<>>) : st \in Statuses}
        \cup {HttpAnswer(st, TRUE, body) : st \in Statuses, body \in SeqsUpTo(RawKinds, MaxRaw)}

\* New with a valid configuration, up to the return of GetRouters in its pass.
InitFetch ==
    /\ InitCommon
    /\ cfg = CfgDisjoint
    /\ npc = "start"
    /\ unifiClients = <<>>
    /\ records = [h \in Hosts |-> <<>>]

NextFetch ==
    \/ NewStart
    \/ LockStep("new")
    \/ LocalIPStep("new")
    \/ FetchStepFrom("new", FetchAnswers, TRUE)

SpecFetch == InitFetch /\ [][NextFetch]_vars

\* ------------------------------------------------- claims about the client
ListStageErrors ==
    {"failed to login before getting DNS entries", "failed to send DNS entries request",
     "failed to get DNS entries with status", "failed to decode DNS entries response"}

\* GetStaticDNSEntries has returned its entries to task t's updateDNSRecord.
ListSucceeded(t) ==
    \/ upc[t] = "write"
    \/ upc[t] = "done" /\ uerr[t] \notin ListStageErrors

ReqsOfKind(log, kind) == {i \in 1..Len(log) : log[i].kind = kind}

\* C1, as amended: when the first listed record whose key equals hostname has
\* the value ip, the call sends no create and no update request and returns
\* success.
C1_NoWriteWhenFirstMatchIsCurrent ==
    \A t \in Tasks :
        LET i == FirstEntry(entries[t], uargs[t].hostname)
        IN  (ListSucceeded(t) /\ i # 0 /\ entries[t][i].Value = uargs[t].ip)
                => /\ upc[t] = "done"
                   /\ Writes(reqs[t]) = 0
                   /\ uerr[t] = Nil

\* C1 as stated: when the list holds some record with key hostname and value
\* ip, the call sends no create and no update request and returns success.
C1_NoWriteWhenSomeMatchIsCurrent ==
    \A t \in Tasks :
        (/\ ListSucceeded(t)
         /\ \E i \in 1..Len(entries[t]) :
               entries[t][i].Key = uargs[t].hostname /\ entries[t][i].Value = uargs[t].ip)
            => /\ upc[t] = "done"
               /\ Writes(reqs[t]) = 0
               /\ uerr[t] = Nil

\* A call has returned success without a write, having listed a current record.
C1_Witness ==
    \E t \in Tasks :
        /\ upc[t] = "done"
        /\ uerr[t] = Nil
        /\ Kinds(reqs[t]) = <<"list">>
        /\ FirstEntry(entries[t], uargs[t].hostname) # 0
        /\ Len(entries[t]) = 2

\* C2: against a device that applies accepted writes, two consecutive calls with
\* the same (hostname, ip) in which no request fails, the first starting where
\* hostname is absent or has another IP, send one write in all: the first call
\* writes once, the second sends the list request and nothing else.
C2_SecondCallIsReadOnly ==
    \A t \in Tasks :
        LET p == prev[uargs[t].client]
        IN  (/\ upc[t] = "done"
             /\ uerr[t] = Nil
             /\ p.valid
             /\ p.err = Nil
             /\ p.fresh
             /\ p.hostname = uargs[t].hostname
             /\ p.ip = uargs[t].ip)
                => /\ p.writes = 1
                   /\ Kinds(reqs[t]) = <<"list">>

\* The second of two such calls has returned.
C2_Witness ==
    \E t \in Tasks :
        LET p == prev[uargs[t].client]
        IN  /\ upc[t] = "done"
            /\ uerr[t] = Nil
            /\ p.valid /\ p.err = Nil /\ p.fresh /\ p.writes = 1
            /\ p.hostname = uargs[t].hostname
            /\ p.ip = uargs[t].ip
            /\ Kinds(reqs[t]) = <<"list">>

\* C3, as amended: when the first listed record for hostname has a value other
\* than ip, the call sends exactly one update request, addressed by that
\* record's id, and no create request.
C3_OneUpdateOfFirstMatch ==
    \A t \in Tasks :
        LET i == FirstEntry(entries[t], uargs[t].hostname)
        IN  (/\ upc[t] = "done"
             /\ ListSucceeded(t)
             /\ i # 0
             /\ entries[t][i].Value # uargs[t].ip)
                => /\ Cardinality(ReqsOfKind(reqs[t], "update")) = 1
                   /\ ReqsOfKind(reqs[t], "create") = {}
                   /\ \A k \in ReqsOfKind(reqs[t], "update") :
                         /\ reqs[t][k].urlId = entries[t][i].ID
                         /\ reqs[t][k].payload.id = entries[t][i].ID

\* C3 as stated: when the list holds some record for hostname whose value
\* differs from ip, the call sends exactly one update request, addressed by the
\* id of such a record, and no create request.
C3_OneUpdateOfSomeMatch ==
    \A t \in Tasks :
        LET differing == {i \in 1..Len(entries[t]) :
                             /\ entries[t][i].Key = uargs[t].hostname
                             /\ entries[t][i].Value # uargs[t].ip}
        IN  (upc[t] = "done" /\ ListSucceeded(t) /\ differing # {})
                => /\ Cardinality(ReqsOfKind(reqs[t], "update")) = 1
                   /\ ReqsOfKind(reqs[t], "create") = {}
                   /\ \A k \in ReqsOfKind(reqs[t], "update") :
                         \E i \in differing : reqs[t][k].urlId = entries[t][i].ID

\* A call has updated the second record of a list whose first record belongs
\* to another host.
C3_Witness ==
    \E t \in Tasks :
        /\ upc[t] = "done"
        /\ FirstEntry(entries[t], uargs[t].hostname) = 2
        /\ Kinds(reqs[t]) = <<"list", "update">>
        /\ reqs[t][2].urlId = entries[t][2].ID
        /\ reqs[t][2].payload.value = uargs[t].ip

\* C4: when the listed records hold no record whose key equals hostname (the
\* empty list included), the call sends exactly one create request carrying
\* hostname, ip, record type A and enabled = true, and no update request.
C4_OneCreateWhenAbsent ==
    \A t \in Tasks :
        (/\ upc[t] = "done"
         /\ ListSucceeded(t)
         /\ FirstEntry(entries[t], uargs[t].hostname) = 0)
            => /\ Cardinality(ReqsOfKind(reqs[t], "create")) = 1
               /\ ReqsOfKind(reqs[t], "update") = {}
               /\ \A k \in ReqsOfKind(reqs[t], "create") :
                     reqs[t][k].payload =
                        [key |-> uargs[t].hostname, record_type |-> "A",
                         value |-> uargs[t].ip, enabled |-> TRUE, id |-> 0]

\* A call has logged in and created a record on a device that listed one record,
\* of another host.
C4_Witness ==
    \E t \in Tasks :
        /\ upc[t] = "done"
        /\ uerr[t] = Nil
        /\ Len(entries[t]) = 1
        /\ FirstEntry(entries[t], uargs[t].hostname) = 0
        /\ Kinds(reqs[t]) = <<"login", "list", "create">>

\* C5: a list or write request answered with status 401 is followed, in the
\* same call, by a new login and one retry of that request.
C5_RetryAfter401 ==
    \A t \in Tasks :
        upc[t] = "done" =>
            \A i \in 1..Len(reqs[t]) :
                (reqs[t][i].kind \in {"list", "create", "update"} /\ reqs[t][i].status = 401)
                    => /\ i + 2 <= Len(reqs[t])
                       /\ reqs[t][i + 1].kind = "login"
                       /\ reqs[t][i + 2].kind = reqs[t][i].kind

\* --------------------------------------------------- claims about a pass
\* What C6 expects of a router: it is passed over without a request when its
\* rule is empty ("norule"), gives no hostname ("nohost") or matches no device
\* ("nomatch"); otherwise its upsert is attempted on a device that matches.
Disposition(router) ==
    IF router.Rule = <<>> THEN "norule"
    ELSE IF extractHostname(router.Rule) = <<>> THEN "nohost"
    ELSE IF \A c \in DOMAIN devicePatterns :
               ~MatchString(devicePatterns[c], extractHostname(router.Rule))
         THEN "nomatch"
    ELSE "upsert"

RouteEvents(log) == SelectSeq(log, LAMBDA e : e.ev = "route")

Fetched(log) == \E i \in 1..Len(log) : log[i].ev = "fetch" /\ log[i].ok

FailedEvent(log, ev) == \E i \in 1..Len(log) : log[i].ev = ev /\ ~log[i].ok

\* C6: in a pass over the routers r1..rN, whatever became of a router (its upsert
\* failed, it gave no hostname, no device matched it), the pass goes on to the
\* next one: between two routers and at the end of the pass, the routers
\* processed so far are exactly those before the current index, each once and in
\* order, each handled as its own rule demands (an upsert attempted with at
\* least one request to a matching device, or no request at all), and the pass
\* reaches its end only with all N processed.
C6_EveryRouteProcessed ==
    \A t \in PassTasks :
        (ppc[t] \in {"route", "ret"} /\ Fetched(plog[t]))
            => LET done == RouteEvents(plog[t])
               IN  /\ Len(done) = idx[t] - 1
                   /\ \A i \in 1..Len(done) :
                         /\ done[i].i = i
                         /\ done[i].outcome = Disposition(routers[t][i])
                         /\ IF done[i].outcome = "upsert"
                            THEN /\ done[i].n >= 1
                                 /\ done[i].client \in DOMAIN devicePatterns
                                 /\ MatchString(devicePatterns[done[i].client],
                                                extractHostname(routers[t][i].Rule))
                            ELSE done[i].n = 0
                   /\ ppc[t] = "ret" => Len(done) = Len(routers[t])

\* A pass over three routers is at its end: the upsert of the first failed, the
\* second matched no device, and the upsert of the third was made and succeeded.
C6_Witness ==
    \E t \in PassTasks :
        /\ ppc[t] = "ret"
        /\ Len(routers[t]) = 3
        /\ LET done == RouteEvents(plog[t])
           IN  /\ Len(done) = 3
               /\ done[1].outcome = "upsert" /\ ~done[1].ok
               /\ done[2].outcome = "nomatch"
               /\ done[3].outcome = "upsert" /\ done[3].ok /\ done[3].n = 3

\* C7: at most one pass executes at a time.  A task that is past u.mu.Lock() and
\* has not yet returned from updateDNS holds the lock, so no two tasks are
\* there together and a later pass starts its work only after the earlier one
\* has returned; only the holder of the lock is inside updateDNSRecord, so no
\* client session is changed by two tasks at once.
C7_OnePassAtATime ==
    /\ \A t \in PassTasks : ppc[t] \in InPass \cup {"ret"} => mu = t
    /\ \A t \in PassTasks : upc[t] # "idle" => (mu = t /\ ppc[t] = "upsert")
    /\ Cardinality({t \in PassTasks : ppc[t] \in InPass \cup {"ret"}}) <= 1

\* The update loop is about to write to a device while a direct caller of
\* updateDNS waits for the lock.
C7_Witness ==
    /\ ppc["loop"] = "upsert"
    /\ upc["loop"] = "write"
    /\ ppc["direct"] = "lock"

\* C8: a New that succeeds runs one pass and has it returned before New returns;
\* until then the update loop is not started, no tick is delivered and the loop
\* has begun no pass.
C8_InitialPassBeforeLoop ==
    /\ npc = "returned" => pcount["new"] = 1
    /\ pcount["new"] <= 1
    /\ npc \in {"start", "initial"} =>
          /\ lpc = "off"
          /\ tick = 0
          /\ ppc["loop"] = "idle"
          /\ pcount["loop"] = 0
          /\ pcount["new"] = 0

\* New has returned after its pass, and the loop has since run a pass of its own.
C8_Witness ==
    /\ npc = "returned"
    /\ pcount["new"] = 1
    /\ pcount["loop"] = 1
    /\ lpc = "select"

\* The configurations C9 speaks of: the interval is not a duration, or a device
\* has an empty pattern, or a device has a pattern that does not compile.
InvalidConfig(c) ==
    \/ c.UpdateInterval = IntervalBad
    \/ \E i \in 1..Len(c.Devices) : c.Devices[i].Pattern \in {<<>>, PatBad}

\* C9: with such a configuration New returns an error and no handler: no pass
\* has run or begun, the update loop is not started, no client exists, and no
\* request has gone to the route source or to a device.
C9_InvalidConfigFailsFast ==
    InvalidConfig(cfg) =>
        /\ npc \in {"start", "failed"}
        /\ lpc = "off"
        /\ unifiClients = <<>>
        /\ now = 0
        /\ \A t \in Tasks :
              /\ ppc[t] = "idle"
              /\ upc[t] = "idle"
              /\ plog[t] = <<>>
              /\ reqs[t] = <<>>
              /\ pcount[t] = 0
        /\ records["udm1"] = StaleRecords
        /\ records["udm2"] = <<>>

\* New has failed on a device with an empty pattern.
C9_Witness ==
    /\ cfg = CfgEmptyPattern
    /\ npc = "failed"

\* C10: a pass that finds no non-loopback IPv4 address does nothing more, it
\* queries neither the route source nor a device; a pass whose route fetch fails
\* does nothing more either, it processes no router and sends no request to a
\* device.  Both return an error.
C10_AbortedPassContactsNoDevice ==
    \A t \in PassTasks :
        /\ FailedEvent(plog[t], "localip") =>
              /\ Len(plog[t]) = 1
              /\ ppc[t] = "ret" /\ perr[t] # Nil
              /\ upc[t] = "idle" /\ reqs[t] = <<>>
        /\ FailedEvent(plog[t], "fetch") =>
              /\ Len(plog[t]) = 2
              /\ ppc[t] = "ret" /\ perr[t] # Nil
              /\ upc[t] = "idle" /\ reqs[t] = <<>>

\* A pass of the update loop has aborted on the route fetch, on a host with a
\* suitable address, after New's pass had written to both devices.
C10_Witness ==
    /\ ppc["loop"] = "ret"
    /\ perr["loop"] = "failed to get Traefik routers"
    /\ FailedEvent(plog["loop"], "fetch")
    /\ records["udm1"] # StaleRecords
    /\ records["udm2"] # <<>>

\* C11: a pass returns an error exactly when the local address could not be
\* determined or the route list could not be fetched.  Once the list is fetched
\* the pass returns nil, whatever became of its routers: skipped for a missing
\* rule or hostname, matched by no device, upsert failed, upsert succeeded.
C11_ErrorOnlyFromLocalIPOrFetch ==
    \A t \in PassTasks :
        ppc[t] = "ret" =>
            /\ perr[t] # Nil <=> (FailedEvent(plog[t], "localip") \/ FailedEvent(plog[t], "fetch"))
            /\ Fetched(plog[t]) => perr[t] = Nil
            /\ perr[t] # Nil => RouteEvents(plog[t]) = <<>>

\* A pass is at its return with nil although the upsert of one of its routers
\* failed and another router matched no device.
C11_Witness ==
    \E t \in PassTasks :
        /\ ppc[t] = "ret"
        /\ perr[t] = Nil
        /\ FailedEvent(plog[t], "route")
        /\ \E i \in 1..Len(plog[t]) : plog[t][i].outcome = "nomatch"
        /\ \E i \in 1..Len(plog[t]) : plog[t][i].outcome = "upsert" /\ plog[t][i].ok

\* The device patterns of the configurations, each by what it asks of a
\* hostname: PatX that ".x" stands somewhere in it, PatY the same of ".y", PatA
\* that it holds an "a", PatAny nothing.
HasMatchSomewhere(pattern, hostname) ==
    CASE pattern = PatX -> Contains(hostname, <<".", "x">>)
      [] pattern = PatY -> Contains(hostname, <<".", "y">>)
      [] pattern = PatA -> Contains(hostname, <<"a">>)
      [] pattern = PatAny -> TRUE
      [] OTHER -> FALSE

DevicesWithMatch(hostname) ==
    {c \in DOMAIN devicePatterns : HasMatchSomewhere(devicePatterns[c], hostname)}

\* C12: for the hostname of a route, findMatchingClient finds a client exactly
\* when the pattern of some device has a match somewhere in the hostname (the
\* pattern need not match the whole hostname), and the client it returns is the
\* one built for such a device; otherwise it finds none and the route is logged
\* as matched by no device.
C12_ContainsMatchDecides ==
    (Fetched(plog["new"]) /\ routers["new"] # <<>>) =>
        LET hostname == extractHostname(routers["new"][1].Rule)
            done == RouteEvents(plog["new"])
        IN  hostname # <<>> =>
               /\ ppc["new"] = "upsert" =>
                     /\ uargs["new"].client \in DevicesWithMatch(hostname)
                     /\ unifiClients[uargs["new"].client].baseURL =
                           <<"https://">> \o cfg.Devices[uargs["new"].client + 1].Host
               /\ \A i \in 1..Len(done) :
                     /\ done[i].outcome = "nomatch" <=> DevicesWithMatch(hostname) = {}
                     /\ done[i].outcome = "upsert" <=> DevicesWithMatch(hostname) # {}
                     /\ done[i].outcome = "upsert" => done[i].client \in DevicesWithMatch(hostname)

\* The client of the device with pattern .*\.x is called for the hostname a.x.c,
\* in which the pattern has a match that is not the whole hostname.
C12_Witness ==
    /\ cfg = CfgDisjoint
    /\ ppc["new"] = "upsert"
    /\ uargs["new"].hostname = HostAXC
    /\ uargs["new"].client = 0

\* C13: with a fixed configuration, every call of findMatchingClient for one
\* hostname returns the same client: the routers of a pass that carry the same
\* hostname are all routed to one client.
C13_SameClientEveryCall ==
    \A t \in PassTasks :
        LET done == RouteEvents(plog[t])
        IN  \A i, j \in 1..Len(done) :
               (/\ done[i].outcome = "upsert"
                /\ done[j].outcome = "upsert"
                /\ extractHostname(routers[t][i].Rule) = extractHostname(routers[t][j].Rule))
                   => done[i].client = done[j].client

\* C14: a router whose hostname matches the pattern of no device is skipped: no
\* call of updateDNSRecord is made for it and no request is sent while it is
\* the current router, it is logged as matched by no device with no request and
\* no client, and the pass goes on to the routers after it and returns nil.
C14_UnmatchedRouteSkipped ==
    \A t \in PassTasks :
        (ppc[t] \in {"route", "upsert", "ret"} /\ Fetched(plog[t])) =>
            LET done == RouteEvents(plog[t])
            IN  \A i \in 1..Len(routers[t]) :
                   LET hostname == extractHostname(routers[t][i].Rule)
                   IN  (hostname # <<>> /\ DevicesWithMatch(hostname) = {}) =>
                          /\ idx[t] = i =>
                                (ppc[t] = "route" /\ upc[t] = "idle" /\ reqs[t] = <<>>)
                          /\ idx[t] > i =>
                                /\ done[i].outcome = "nomatch"
                                /\ done[i].n = 0
                                /\ done[i].client = 0 - 1
                          /\ ppc[t] = "ret" =>
                                (perr[t] = Nil /\ idx[t] > Len(routers[t]))

\* The router c.z was matched by no device and skipped, and the pass is now
\* sending requests for the router after it.
C14_Witness ==
    \E t \in PassTasks :
        /\ ppc[t] = "upsert"
        /\ idx[t] = 3
        /\ extractHostname(routers[t][2].Rule) = HostCZ
        /\ RouteEvents(plog[t])[2].outcome = "nomatch"
        /\ reqs[t] # <<>>

\* A raw descriptor qualifies: its rule is a non-empty string, and the marker
\* stands in its middlewares, which is a string or a list with a string item
\* that holds it.
Qualifies(raw) ==
    /\ raw.rule.t = "str"
    /\ raw.rule.s # <<>>
    /\ \/ raw.middlewares.t = "str" /\ Contains(raw.middlewares.s, MwMarker)
       \/ /\ raw.middlewares.t = "list"
          /\ \E k \in 1..Len(raw.middlewares.l) :
                /\ raw.middlewares.l[k].t = "str"
                /\ Contains(raw.middlewares.l[k].s, MwMarker)

AfterFetch(t) == ppc[t] \in {"route", "upsert", "ret"} /\ \E i \in 1..Len(plog[t]) : plog[t][i].ev = "fetch"

\* C15: from a body it can decode, GetRouters returns the qualifying
\* descriptors and no others, in the order of the body, each once however
\* often it carries the marker.
C15_ExactlyQualifyingInOrder ==
    (AfterFetch("new") /\ GoodRouteAnswer(answer["new"])) =>
        LET expected == SelectSeq(answer["new"].body, Qualifies)
        IN  /\ ppc["new"] = "route"
            /\ Len(routers["new"]) = Len(expected)
            /\ \A i \in 1..Len(expected) : routers["new"][i].Rule = expected[i].rule.s

\* The body holds a descriptor with the marker twice and, after it, one with
\* the marker in a single string: both are returned, once each, in that order.
C15_Witness ==
    /\ AfterFetch("new")
    /\ answer["new"].body = <<RawPath, RawBY>>
    /\ answer["new"].status = StatusOK
    /\ Len(routers["new"]) = 2
    /\ routers["new"][1].Rule = PathRule

\* C16 (as stated): the fetch fails exactly when the transport fails, the
\* status is not a success status (2xx), or the body cannot be decoded.
C16_ErrorIffNotSuccessStatus ==
    AfterFetch("new") =>
        (perr["new"] # Nil <=>
            \/ answer["new"].err
            \/ ~(answer["new"].status >= 200 /\ answer["new"].status < 300)
            \/ ~answer["new"].decodable)

\* C16 (amended): the fetch fails exactly when the transport fails, the status
\* is not 200, or the body cannot be decoded; a descriptor that does not
\* qualify never makes it fail and never removes a qualifying one.
C16_ErrorIffNot200 ==
    AfterFetch("new") =>
        /\ perr["new"] # Nil <=>
              \/ answer["new"].err
              \/ answer["new"].status # 200
              \/ ~answer["new"].decodable
        /\ perr["new"] = Nil =>
              \A i \in 1..Len(answer["new"].body) :
                  Qualifies(answer["new"].body[i]) =>
                      \E j \in 1..Len(routers["new"]) :
                          routers["new"][j].Rule = answer["new"].body[i].rule.s

\* The body holds a descriptor whose rule is a number before a qualifying
\* one: the fetch succeeds and returns the second.
C16_Witness ==
    /\ AfterFetch("new")
    /\ answer["new"].body = <<RawNoRule, RawAX>>
    /\ answer["new"].status = StatusOK
    /\ perr["new"] = Nil
    /\ Len(routers["new"]) = 1

\* The literal without the spaces before its first and after its last
\* character that is not a space.
TrimmedLiteral(lit) ==
    LET solid == {i \in 1..Len(lit) : lit[i] # Space}
    IN  IF solid = {} THEN <<>> ELSE SubSeq(lit, Min(solid), Max(solid))

\* The rule of the one route the source answered with.
ObservedRule == answer["new"].body[1].rule.s

\* C17: for a rule with a Host predicate whose argument is a non-empty literal
\* between two backticks, two single quotes or two double quotes, alone or
\* with a path predicate before or after it, extractHostname returns the
\* literal without the spaces around it: that is the hostname the pass hands to
\* updateDNSRecord and routes by, and the route is skipped for want of a
\* hostname exactly when the literal is nothing but spaces.
C17_QuotedLiteralExtracted ==
    (AfterFetch("new") /\ GoodRouteAnswer(answer["new"])) =>
        \A q \in QuotedRules :
            ObservedRule = q.rule =>
                LET expected == TrimmedLiteral(q.literal)
                    done == RouteEvents(plog["new"])
                IN  /\ ppc["new"] = "upsert" => uargs["new"].hostname = expected
                    /\ \A i \in 1..Len(done) :
                          /\ done[i].outcome = "nohost" <=> expected = <<>>
                          /\ done[i].outcome = "nomatch" <=>
                                (expected # <<>> /\ DevicesWithMatch(expected) = {})
                          /\ done[i].outcome # "norule"

\* The rule is Path(`/`) && Host(' a.x '), and updateDNSRecord is called for a.x.
C17_Witness ==
    /\ AfterFetch("new")
    /\ ObservedRule = PathRule \o And \o HostPred(<<SQuote>>, <<Space>> \o HostAX \o <<Space>>, <<SQuote>>)
    /\ ppc["new"] = "upsert"
    /\ uargs["new"].hostname = HostAX

\* The rules C18 speaks of: without a Host predicate, or with one whose
\* argument is unquoted or stands between mismatched delimiters.
RulesWithoutHostname == NoHostRules \cup MalformedRules

\* C18: for the empty rule, a rule without a Host predicate and a rule whose
\* Host predicate has an unquoted argument or mismatched delimiters,
\* extractHostname returns the empty string, and the pass skips the route: it
\* calls no client and sends no request for it.
C18_NoHostnameNoCall ==
    /\ extractHostname(NoStr) = NoStr
    /\ (AfterFetch("new") /\ GoodRouteAnswer(answer["new"]) /\ ObservedRule \in RulesWithoutHostname) =>
          /\ extractHostname(ObservedRule) = NoStr
          /\ ppc["new"] # "upsert"
          /\ upc["new"] = "idle"
          /\ \A i \in 1..Len(plog["new"]) :
                plog["new"][i].ev = "route" => (plog["new"][i].outcome = "nohost" /\ plog["new"][i].n = 0)

\* The calls of next.ServeHTTP made for the k-th call of ServeHTTP.
DelegationsOf(k) == {j \in 1..Len(delegated) : delegated[j].call = k}

\* C19: every call of ServeHTTP calls next.ServeHTTP once, with the request and
\* the response writer it was given and not before it was called itself, and
\* neither that call nor the return of ServeHTTP waits for the lock of
\* updateDNS: both can be taken whoever holds the lock.
C19_DelegatesOnceWithoutLock ==
    \A k \in 1..Len(inbound) :
        /\ inbound[k].pc = "called" =>
              (DelegationsOf(k) = {} /\ ENABLED ServeHTTPDelegate(k))
        /\ inbound[k].pc \in {"next", "done"} =>
              /\ Cardinality(DelegationsOf(k)) = 1
              /\ \A j \in DelegationsOf(k) :
                    /\ delegated[j].args.req = inbound[k].req
                    /\ delegated[j].args.rw = inbound[k].rw
        /\ inbound[k].pc = "next" => ENABLED ServeHTTPReturn(k)

\* A request was handed to next.ServeHTTP while the update loop held the lock,
\* and ServeHTTP has returned while the loop, in that same pass, goes through
\* its routers; a second request is with the next handler.
C19_Witness ==
    /\ Len(inbound) = 2
    /\ inbound[1].pc = "done"
    /\ inbound[2].pc = "next"
    /\ \A j \in DelegationsOf(1) : delegated[j].holder = "loop"
    /\ mu = "loop"
    /\ events = 1
    /\ ppc["loop"] = "route"
    /\ idx["loop"] = 2

\* A cancellation that comes while the loop is parked in select wakes it with
\* case <-ctx.Done().
CancelWakesParkedLoop ==
    (lpc = "parked" /\ ~ctxDone /\ ctxDone') => lpc' = "wokenDone"

\* The loop woken with case <-ctx.Done() starts no pass and only returns.
WokenByCancelStartsNoPass ==
    lpc \in {"wokenDone", "stopped"} =>
        /\ lpc' \in {"wokenDone", "stopped"}
        /\ ppc'["loop"] = "idle"
        /\ pcount'["loop"] = pcount["loop"]

\* C20: once the context is cancelled the update loop returns at last; and a
\* cancellation that comes while the loop is parked in select wakes it with
\* case <-ctx.Done(): from then on the loop starts no pass, whatever ticks
\* come, and only returns.
C20_CancelStopsLoop ==
    /\ [][CancelWakesParkedLoop]_vars
    /\ [][WokenByCancelStartsNoPass]_vars
    /\ (ctxDone /\ npc \in {"initial", "returned"}) ~> (lpc = "stopped")

\* The loop, which has run one pass, was woken by the cancellation, and a tick
\* has come since: no pass is started for it.
C20_Witness ==
    /\ lpc = "wokenDone"
    /\ ctxDone
    /\ tick = 1
    /\ pcount["loop"] = 1

\* The list, create and update requests of a log.
Business == {"list", "create", "update"}

\* C21: no list, create or update request goes out from a client without a
\* token: every such request carries a non-empty token, a login request goes
\* out only from a client without one and is followed by a further request
\* only if it was answered with success, and a client that is still without a
\* token has sent no list, create or update request in its call.
C21_NoBusinessRequestWithoutToken ==
    LET log == reqs["caller"]
    IN  /\ \A i \in 1..Len(log) :
              /\ log[i].kind \in Business => log[i].token # ""
              /\ (log[i].kind = "login" /\ i < Len(log)) => log[i].status = 200
        /\ \A c \in DOMAIN unifiClients :
              unifiClients[c].csrfToken = "" =>
                  \A i \in 1..Len(log) : log[i].kind \notin Business

\* A client without a token has logged in, listed and created in one call.
C21_Witness ==
    /\ Kinds(reqs["caller"]) = <<"login", "list", "create">>
    /\ reqs["caller"][1].token = ""
    /\ reqs["caller"][2].token = "csrf"
    /\ reqs["caller"][3].token = "csrf"

\* A step in which task t sends a login request.
SendsLogin(t) ==
    /\ Len(reqs'[t]) > Len(reqs[t])
    /\ reqs'[t][Len(reqs[t]) + 1].kind = "login"

\* C22 as a step: where a login request is sent, the token of the client
\* changes only if the answer has status 200 and then to a non-empty token;
\* on every other answer the call ends in an error with the token as it was,
\* and a call that goes on after the login has a token.
LoginStoresTokenOnlyOnSuccess ==
    SendsLogin("caller") =>
        LET c == uargs["caller"].client
            st == reqs'["caller"][Len(reqs["caller"]) + 1].status
        IN  /\ unifiClients'[c].csrfToken # unifiClients[c].csrfToken =>
                  (st = 200 /\ unifiClients'[c].csrfToken # "")
            /\ st # 200 =>
                  (unifiClients'[c] = unifiClients[c] /\ uerr'["caller"] # Nil)
            /\ unifiClients'[c].csrfToken = "" =>
                  (uerr'["caller"] # Nil /\ upc'["caller"] = "done")
            /\ unifiClients[c].csrfToken = ""

\* C22: login stores a token only from an answer with status 200 that carries a
\* non-empty token; on a transport error, another status, or status 200
\* without the token it returns an error and leaves the token as it was.
C22_LoginFailsClosed == [][LoginStoresTokenOnlyOnSuccess]_vars

\* The login was answered with status 200 but without a token: the call has
\* ended in an error, the client is still without a token, and nothing else
\* was sent.
C22_Witness ==
    /\ upc["caller"] = "done"
    /\ Kinds(reqs["caller"]) = <<"login">>
    /\ reqs["caller"][1].status = 200
    /\ uerr["caller"] # Nil
    /\ unifiClients[0].csrfToken = ""

\* A logged request failed: a transport error (logged with status 0) or an
\* answer with a status other than 200, the test of success in the client.
Failed(r) == r.status # StatusOK

\* C23: a call whose login, list or write request fails returns an error, and
\* the failed request is the last one of the call: no list and no write after
\* a failed login, no write after a failed list.
C23_FailedStageEndsCallInError ==
    LET log == reqs["caller"]
    IN  \A i \in 1..Len(log) :
            Failed(log[i]) =>
                /\ i = Len(log)
                /\ upc["caller"] = "done"
                /\ uerr["caller"] # Nil

\* After a login that succeeded, the list request was refused: the call has
\* ended in an error without a write.
C23_Witness ==
    /\ upc["caller"] = "done"
    /\ Kinds(reqs["caller"]) = <<"login", "list">>
    /\ reqs["caller"][1].status = 200
    /\ reqs["caller"][2].status = 401
    /\ uerr["caller"] = "failed to get DNS entries with status"

\* ------------------------------------- the loop on a route that stays exposed
\* The route source while a.x stays exposed with the marker: it fails, or
\* answers with a route that carries no hostname and that route.
ConvergeRouteAnswers == {TransportError, HttpAnswer(StatusOK, TRUE, <<RawPath, RawAX>>)}

ConvergeTasks == {"new", "loop"}

\* A step of updateDNS in task t, its calls of updateDNSRecord included.
ConvergePassStep(t) ==
    \/ LockStep(t)
    \/ LocalIPStep(t)
    \/ FetchStepFrom(t, ConvergeRouteAnswers, FALSE)
    \/ RouteStep(t)
    \/ RouteReturn(t)
    \/ PassFinish(t)
    \/ LoginStep(t)
    \/ ListStep(t)
    \/ WriteStep(t)

\* New is about to be called with a valid configuration whose first device is
\* the one a.x is routed to; that device holds any record list.
InitConverge ==
    /\ InitCommon
    /\ cfg = CfgDisjoint
    /\ npc = "start"
    /\ unifiClients = <<>>
    /\ \E l \in InitialRecordLists :
          records = [h \in Hosts |-> IF h = "udm1" THEN l ELSE <<>>]

\* New, and the loop with its ticks; the context is not cancelled.
NextConverge ==
    \/ NewStart
    \/ NewFinish
    \/ Tick
    \/ LoopPark
    \/ LoopTick
    \/ LoopReturn
    \/ \E t \in ConvergeTasks : ConvergePassStep(t)

\* No pass stands at a router of its loop over the routers.
NoneAtRoute == \A t \in ConvergeTasks : ppc[t] # "route"

\* What the goroutines do by themselves outside the loop over the routers:
\* everything but the ticks.
ConvergeStep ==
    /\ NoneAtRoute
    /\ \/ NewFinish
       \/ LoopTick
       \/ LoopReturn
       \/ \E t \in ConvergeTasks : ConvergePassStep(t)

\* The goroutines run.  In the loop over the routers a step is possible in
\* every state (the next router, or the end of the loop), so that the
\* goroutine running means that no pass stands there for ever.
SpecConverge ==
    /\ InitConverge
    /\ [][NextConverge]_vars
    /\ WF_vars(ConvergeStep)
    /\ []<>NoneAtRoute

\* The same with a context that can be cancelled at any time.
NextSched ==
    \/ NextConverge
    \/ Cancel
    \/ LoopStop

SpecSched ==
    /\ InitConverge
    /\ [][NextSched]_vars
    /\ WF_vars(ConvergeStep)
    /\ []<>NoneAtRoute

\* The loop has received a tick it has not yet answered with a pass.
TickReceived == lpc = "wokenTick" \/ (lpc = "select" /\ tick = 1)

\* The pass of task t is at its return and every request it made succeeded:
\* the local address was found, the route source answered, the call of
\* updateDNSRecord for a.x returned nil.
HealthyPassEnded(t) ==
    /\ ppc[t] = "ret"
    /\ perr[t] = Nil
    /\ \A i \in 1..Len(plog[t]) : plog[t][i].ok
    /\ \E i \in 1..Len(plog[t]) : plog[t][i].ev = "route" /\ plog[t][i].outcome = "upsert"

\* The device a.x is routed to holds a record of a.x with the local address of
\* the host, and it is the record a list request finds first.
Converged ==
    LET es == DecodeEntries(records["udm1"])
        i == FirstEntry(es, HostAX)
    IN  i # 0 /\ es[i].Value = IP1

\* A step in which no task sends a create or update request.
NoWriteSent == \A t \in Tasks : Writes(reqs'[t]) <= Writes(reqs[t])

\* C24: convergence.  A tick the loop receives is answered with a pass that
\* comes to its end; once a pass has ended in which the route source and the
\* device answered every request with success, the device holds the record of
\* a.x with the local address, for good; and from a state in which it holds
\* it, no step sends a write.
C24_Convergence ==
    /\ TickReceived ~> (ppc["loop"] = "ret")
    /\ \A t \in ConvergeTasks : [](HealthyPassEnded(t) => []Converged)
    /\ [][Converged => NoWriteSent]_vars

\* A pass of the loop in which every request succeeded has sent a write and
\* left the record on the device.
C24_Witness ==
    /\ HealthyPassEnded("loop")
    /\ \E i \in 1..Len(plog["loop"]) : plog["loop"][i].ev = "route" /\ plog["loop"][i].n >= 2
    /\ Converged

\* C25: a session is given up when the device stops accepting its token: a
\* call whose list, create or update request was answered with status 401
\* leaves the client without a token, so that its next call logs in again.
C25_RejectedTokenIsDropped ==
    LET log == reqs["caller"]
    IN  upc["caller"] = "done" =>
            \A i \in 1..Len(log) :
                (log[i].kind \in Business /\ log[i].status = 401) =>
                    unifiClients[log[i].client].csrfToken = ""

\* How many requests of kind k a log holds.
CountOf(log, k) == Cardinality({i \in 1..Len(log) : log[i].kind = k})

\* C26: inside one call nothing is retried.  The call sends at most one login
\* request, at most one list request and at most one write request; no login
\* request follows a list request; and a call that has ended has sent its one
\* list request exactly if its client has a token, from before or from the
\* login of this call.
C26_NothingRetriedInOneCall ==
    LET log == reqs["caller"]
    IN  /\ CountOf(log, "login") <= 1
        /\ CountOf(log, "list") <= 1
        /\ Writes(log) <= 1
        /\ \A i, j \in 1..Len(log) : (i < j /\ log[i].kind = "list") => log[j].kind # "login"
        /\ upc["caller"] = "done" =>
              (CountOf(log, "list") = 1 <=>
                   unifiClients[uargs["caller"].client].csrfToken # "")

\* A client with a token had its list request refused: the call has ended with
\* that one request.
C26_Witness ==
    /\ upc["caller"] = "done"
    /\ Len(reqs["caller"]) = 1
    /\ reqs["caller"][1].kind = "list"
    /\ reqs["caller"][1].status = 401
    /\ reqs["caller"][1].token = "csrf"

\* C27: the decision of a call rests on the list fetched in that call.  Every
\* create or update request comes after a list request of the same call that
\* was answered with status 200; and where the call is about to write, its
\* entries are the records the device holds now, whatever earlier calls have
\* seen or written, and its existingEntry is the first of them with the
\* hostname (none for a create), with a value other than ip.
C27_DecisionFromOwnList ==
    LET t == "caller"
        log == reqs[t]
    IN  /\ \A j \in 1..Len(log) :
              log[j].kind \in {"create", "update"} =>
                  \E i \in 1..(j - 1) : log[i].kind = "list" /\ log[i].status = 200
        /\ upc[t] = "write" =>
              LET es == DecodeEntries(records[HostOf(uargs[t].client)])
                  i == FirstEntry(es, uargs[t].hostname)
              IN  /\ entries[t] = es
                  /\ existingEntry[t] = IF i = 0 THEN NoEntry ELSE es[i]
                  /\ i # 0 => es[i].Value # uargs[t].ip

\* A call is about to update a record that the call before it has created.
C27_Witness ==
    /\ prev[0].valid
    /\ prev[0].writes = 1
    /\ prev[0].hostname = HostAX
    /\ upc["caller"] = "write"
    /\ uargs["caller"].hostname = HostAX
    /\ records["udm1"] = <<Record(HostAX, prev[0].ip, 1, TRUE)>>
    /\ existingEntry["caller"] = DNSEntry(Record(HostAX, prev[0].ip, 1, TRUE))

\* The pass of the loop is running and the context is cancelled.
CancelledInPass == lpc = "pass" /\ ctxDone

\* A step from a state in which the pass of the loop is running: the loop
\* leaves its pass only by the return of updateDNS, and the cancellation
\* itself changes nothing of the pass.
PassNotInterrupted ==
    /\ lpc = "pass" =>
          \/ lpc' = "pass"
          \/ lpc' = "select" /\ ppc["loop"] = "ret"
    /\ (lpc = "pass" /\ ctxDone' # ctxDone) => UNCHANGED <<passVars, callVars, records, unifiClients>>

\* The pass of the loop has come to its return after all its routers, or at
\* the error of getLocalIP or of GetRouters.
PassRanToItsEnd ==
    /\ ppc["loop"] = "ret"
    /\ \/ /\ perr["loop"] = Nil
          /\ Fetched(plog["loop"])
          /\ Len(RouteEvents(plog["loop"])) = Len(routers["loop"])
       \/ /\ perr["loop"] # Nil
          /\ FailedEvent(plog["loop"], "localip") \/ FailedEvent(plog["loop"], "fetch")

\* C28: a pass that has started is not interrupted by the cancellation.  The
\* loop leaves a running pass only when updateDNS returns, a cancellation
\* changes nothing of the pass, and a pass during which the context is
\* cancelled still runs to its end: through all its routers, or to the error
\* that aborts it.
C28_PassNotInterruptedByCancel ==
    /\ [][PassNotInterrupted]_vars
    /\ CancelledInPass ~> PassRanToItsEnd

\* The context was cancelled while the pass of the loop was running, and the
\* pass has handled both its routers, the second with a write to the device.
C28_Witness ==
    /\ CancelledInPass
    /\ PassRanToItsEnd
    /\ perr["loop"] = Nil
    /\ Len(routers["loop"]) = 2
    /\ plog["loop"][Len(plog["loop"])].n >= 2

\* 1 where the condition holds, 0 where it does not.
Count(b) == IF b THEN 1 ELSE 0

\* The ticks the ticker has fired (the only events where nothing else calls
\* updateDNS) are: those the loop has answered with a pass, returned or
\* running, the one it holds and is about to answer, and the one that waits in
\* ticker.C.
OnePassPerTick ==
    events = pcount["loop"] + Count(lpc = "pass") + Count(lpc = "wokenTick") + tick

\* The loop starts a pass only by taking a tick, and goes back to its select
\* when updateDNS returns, with or without an error.
PassOnlyForTick ==
    /\ (lpc # "pass" /\ lpc' = "pass") =>
          \/ lpc = "wokenTick"
          \/ lpc = "select" /\ tick = 1 /\ tick' = 0
    /\ (lpc = "pass" /\ lpc' # "pass") => (lpc' = "select" /\ pcount'["loop"] = pcount["loop"] + 1)

\* C29: the loop starts exactly one pass for each tick it receives, and a pass
\* that returns an error does not stop it.  The passes of the loop and the
\* ticks correspond one to one; a pass starts only by taking a tick, and its
\* return, with or without an error, puts the loop back in its select; and a
\* tick received while the context is not cancelled is answered with a pass,
\* unless the cancellation comes first.
C29_OnePassPerTick ==
    /\ []OnePassPerTick
    /\ [][PassOnlyForTick]_vars
    /\ (TickReceived /\ ~ctxDone) ~> (lpc = "pass" \/ ctxDone)

\* The second pass of the loop is running, for the second tick, after a first
\* pass that returned an error: the last-run timestamp is not that of the
\* first pass of the loop.
C29_Witness ==
    /\ lpc = "pass"
    /\ ~ctxDone
    /\ pcount["loop"] = 1
    /\ events = 2
    /\ now = 3
    /\ lastUpdate <= 1

\* The pass of task t has come through its loop over the routers.
CompletedRoutes(t) ==
    /\ ppc[t] = "ret"
    /\ Fetched(plog[t])
    /\ Len(RouteEvents(plog[t])) = Len(routers[t])

\* While a pass runs and where it has aborted, lastUpdate is the time of an
\* earlier pass; where it has come through its loop over the routers,
\* lastUpdate is its own time.
LastUpdateOfPass(t) ==
    /\ ppc[t] \in {"localip", "fetch", "route", "upsert"} => lastUpdate < now
    /\ ppc[t] = "ret" =>
          IF CompletedRoutes(t) THEN lastUpdate = now
          ELSE lastUpdate < now /\ perr[t] # Nil

\* lastUpdate changes only in the step that ends the loop over the routers.
LastUpdateSetAtEndOfRoutes ==
    lastUpdate' # lastUpdate =>
        \E t \in ConvergeTasks :
            /\ ppc[t] = "route"
            /\ idx[t] > Len(routers[t])
            /\ ppc'[t] = "ret"
            /\ lastUpdate' = now

\* C30: a pass records the last-run timestamp exactly if it completes its loop
\* over the routers, whether or not a router has failed in it; a pass that
\* aborts, at getLocalIP or at GetRouters, leaves the timestamp as it was.
C30_LastUpdateIffCompleted ==
    /\ [](\A t \in ConvergeTasks : LastUpdateOfPass(t))
    /\ [][LastUpdateSetAtEndOfRoutes]_vars

\* A pass of the loop in which the upsert of a router failed has come to its
\* end and has recorded its time.
C30_Witness ==
    /\ CompletedRoutes("loop")
    /\ FailedEvent(plog["loop"], "route")
    /\ lastUpdate = now
    /\ now >= 2

\* ---------------------------------------- one pass over several hostnames
\* Bodies of the route source with a hostname twice, and with hostnames of
\* two devices.
PassBodies == {<<RawAX, RawAX>>, <<RawAX, RawBY>>, <<RawBY, RawPath, RawAX>>}

\* The route source answering with any status.
PassRouteAnswers ==
    {TransportError} \cup {HttpAnswer(st, TRUE, body) : st \in Statuses, body \in PassBodies}

\* New is about to be called with disjoint or overlapping patterns; the first
\* device holds any record list.
InitPass ==
    /\ InitCommon
    /\ cfg \in {CfgDisjoint, CfgOverlap}
    /\ npc = "start"
    /\ unifiClients = <<>>
    /\ \E l \in InitialRecordLists :
          records = [h \in Hosts |-> IF h = "udm1" THEN l ELSE <<>>]

\* New and its first pass.
NextPass ==
    \/ NewStart
    \/ NewFinish
    \/ LockStep("new")
    \/ LocalIPStep("new")
    \/ FetchStepFrom("new", PassRouteAnswers, TRUE)
    \/ RouteStep("new")
    \/ RouteReturn("new")
    \/ PassFinish("new")
    \/ LoginStep("new")
    \/ ListStep("new")
    \/ WriteStep("new")

SpecPass == InitPass /\ [][NextPass]_vars

\* C31: within a pass the routers are processed one after the other, in the
\* order of the answer of the route source.  Requests to a device are sent
\* only inside the call of updateDNSRecord for the router at the current
\* index, for the hostname of that router; by then every router before it has
\* been processed to its end, in order, and none after it has been touched.
C31_RoutesInOrder ==
    LET t == "new"
        done == RouteEvents(plog[t])
    IN  /\ (upc[t] # "idle" \/ reqs[t] # <<>>) =>
              /\ ppc[t] = "upsert"
              /\ idx[t] \in 1..Len(routers[t])
              /\ uargs[t].hostname = extractHostname(routers[t][idx[t]].Rule)
              /\ \A k \in 1..Len(reqs[t]) : reqs[t][k].client = uargs[t].client
        /\ ppc[t] \in {"route", "upsert"} =>
              /\ Len(done) = idx[t] - 1
              /\ \A i \in 1..Len(done) : done[i].i = i

\* The call for the third router is about to write, after the calls for the
\* first router (a write made) and no call for the second, which has no
\* hostname.
C31_Witness ==
    /\ ppc["new"] = "upsert"
    /\ idx["new"] = 3
    /\ upc["new"] = "write"
    /\ LET done == RouteEvents(plog["new"])
       IN  /\ Len(done) = 2
           /\ done[1].outcome = "upsert" /\ done[1].n = 3
           /\ done[2].outcome = "nohost"

\* A step in which the caller sends an update request: the request is
\* addressed by the id of the first record the device holds for the hostname
\* and carries that id, the hostname, the ip of the call, and the enabled flag
\* that record has on the device.
UpdateCarriesRecord ==
    LET t == "caller"
        n == Len(reqs'[t])
    IN  (n > Len(reqs[t]) /\ reqs'[t][n].kind = "update") =>
            LET r == reqs'[t][n]
                recs == records[HostOf(r.client)]
                k == FirstEntry(DecodeEntries(recs), uargs[t].hostname)
            IN  /\ k # 0
                /\ r.urlId = recs[k].id
                /\ r.payload.id = recs[k].id
                /\ r.payload.key = recs[k].key
                /\ r.payload.value = uargs[t].ip
                /\ r.payload.enabled = recs[k].enabled

\* C32: the update request for an existing record carries the record's id,
\* the same hostname and the new ip, and keeps the enabled flag the record has
\* on the device.
C32_UpdateKeepsEnabled == [][UpdateCarriesRecord]_vars

\* The pass of task t has, before its current router, made a call of
\* updateDNSRecord that returned nil for the hostname and on the client of the
\* call it is in now.
UpsertedBefore(t) ==
    \E i \in 1..Len(plog[t]) :
        /\ plog[t][i].ev = "route"
        /\ plog[t][i].outcome = "upsert"
        /\ plog[t][i].ok
        /\ plog[t][i].client = uargs[t].client
        /\ extractHostname(routers[t][plog[t][i].i].Rule) = uargs[t].hostname

Racers == {"caller", "direct"}

ClientOf(t) == IF t = "caller" THEN 0 ELSE 1

\* Each process has built its client, with or without a session; the device
\* holds any record list.
InitRace ==
    /\ InitCommon
    /\ cfg = CfgDisjoint
    /\ npc = "none"
    /\ \E tok \in [ClientIds -> {"", "csrf"}] :
          unifiClients = [c \in ClientIds |->
                             [NewUniFiClient(<<"udm1">>) EXCEPT !.csrfToken = tok[c]]]
    /\ \E l \in InitialRecordLists :
          records = [h \in Hosts |-> IF h = "udm1" THEN l ELSE <<>>]

\* Process t calls updateDNSRecord(a.x, 10.0.0.5) on its client, once.
RaceCall(t) ==
    /\ upc[t] = "idle"
    /\ ~prev[ClientOf(t)].valid
    /\ BeginCall(t, ClientOf(t), HostAX, IP1)
    /\ UNCHANGED <<httpVars, newVars, passVars, loopVars, unifiClients, records, prev>>

\* updateDNSRecord returns to process t.
RaceReturn(t) ==
    /\ upc[t] = "done"
    /\ EndCall(t)
    /\ prev' = [prev EXCEPT ![uargs[t].client] = Summary(t)]
    /\ UNCHANGED <<httpVars, newVars, passVars, loopVars, unifiClients, records>>

\* The steps of the two calls interleave in any order.
NextRace ==
    \E t \in Racers :
        \/ RaceCall(t)
        \/ LoginStep(t)
        \/ ListStep(t)
        \/ WriteStep(t)
        \/ RaceReturn(t)

SpecRace == InitRace /\ [][NextRace]_vars

\* Where a call of a process has come to its end with nil, and where it has
\* returned nil, the device maps a.x to the ip; a process sends one write at
\* most, for a.x and the ip.
RaceOutcome ==
    \A t \in Racers :
        /\ (upc[t] = "done" /\ uerr[t] = Nil) => Converged
        /\ (prev[ClientOf(t)].valid /\ prev[ClientOf(t)].err = Nil) => Converged
        /\ Writes(reqs[t]) <= 1
        /\ \A k \in 1..Len(reqs[t]) :
              reqs[t][k].kind \in {"create", "update"} =>
                  (reqs[t][k].payload.key = HostAX /\ reqs[t][k].payload.value = IP1)

\* C34: two processes run updateDNSRecord for the same hostname and ip on the
\* same device, their requests interleaved in any order.  Whatever the order,
\* each sends one write at most, every write carries the hostname and the ip,
\* a call that returns nil leaves the device mapping the hostname to the ip,
\* and no later step of the other process undoes that.
C34_RaceConverges ==
    /\ []RaceOutcome
    /\ [][Converged => Converged']_vars

\* Both processes have listed the device without a record of a.x, both have
\* created one and returned nil: the device holds two records of a.x with the
\* ip.
C34_Witness ==
    /\ \A c \in ClientIds : prev[c].valid /\ prev[c].err = Nil /\ prev[c].writes = 1
    /\ Len(records["udm1"]) = 2
    /\ \A i \in 1..2 : records["udm1"][i].key = HostAX /\ records["udm1"][i].value = IP1

\* In the call for a router, the client is one whose pattern matches the
\* hostname, it talks to the host of its own device, and every request of the
\* call is sent by it.
RequestsToMatchedDevice ==
    LET t == "new"
        c == uargs[t].client
    IN  ppc[t] = "upsert" =>
            /\ c \in DOMAIN devicePatterns
            /\ MatchString(devicePatterns[c], uargs[t].hostname)
            /\ HostOf(c) = cfg.Devices[c + 1].Host[1]
            /\ \A k \in 1..Len(reqs[t]) : reqs[t][k].client = c

\* A step of the pass changes the session of the client of the current call
\* only, and the records of its device only.
OnlyMatchedDeviceChanges ==
    LET t == "new"
        c == uargs[t].client
    IN  npc # "start" =>
            /\ \A d \in DOMAIN unifiClients :
                  unifiClients'[d] # unifiClients[d] => (ppc[t] = "upsert" /\ d = c)
            /\ \A h \in Hosts :
                  records'[h] # records[h] => (ppc[t] = "upsert" /\ h = HostOf(c))

\* C35: processing a router whose hostname resolves to a device sends
\* requests to that device only and changes the session of its client only:
\* the token of every other client and the records of every other device are
\* as they were.
C35_OnlyMatchedDeviceTouched ==
    /\ []RequestsToMatchedDevice
    /\ [][OnlyMatchedDeviceChanges]_vars

\* The call for b.y, the second router, has logged in and created the record
\* on the second device, after the call for a.x has logged in on the first.
C35_Witness ==
    /\ ppc["new"] = "upsert"
    /\ idx["new"] = 2
    /\ uargs["new"].client = 1
    /\ uargs["new"].hostname = HostBY
    /\ Kinds(reqs["new"]) = <<"login", "list", "create">>
    /\ unifiClients[0].csrfToken = "csrf"
    /\ unifiClients[1].csrfToken = "csrf"
    /\ Len(records["udm2"]) = 1

\* The style of highest priority among styles: the backtick, else the single
\* quote, else the double quote.
BestStyle(styles) ==
    LET used == {styles[i] : i \in 1..Len(styles)}
    IN  IF Backtick \in used THEN Backtick
        ELSE IF SQuote \in used THEN SQuote
        ELSE DQuote

\* C36: for a rule with Host predicates in more than one delimiter style,
\* extractHostname returns the literal between backticks if there is one,
\* else the one between single quotes, else the one between double quotes,
\* wherever the predicates stand in the rule; that literal is the hostname the
\* pass routes by and hands to updateDNSRecord.
C36_DelimiterPriority ==
    (AfterFetch("new") /\ GoodRouteAnswer(answer["new"])) =>
        \A m \in MultiStyleRules :
            ObservedRule = m.rule =>
                LET expected == StyleLiteral(BestStyle(m.styles))
                IN  /\ extractHostname(ObservedRule) = expected
                    /\ ppc["new"] = "upsert" => uargs["new"].hostname = expected
                    /\ \A i \in 1..Len(plog["new"]) :
                          plog["new"][i].ev = "route" =>
                              plog["new"][i].outcome \in {"upsert", "nomatch"}

\* The rule is Host("c.z") || Host('b.y') || Host(`a.x`), and updateDNSRecord
\* is called for a.x.
C36_Witness ==
    /\ AfterFetch("new")
    /\ ObservedRule = MultiStyleRule(<<DQuote, SQuote, Backtick>>)
    /\ ppc["new"] = "upsert"
    /\ uargs["new"].hostname = HostAX

\* A step in which task t sends a login request for client c that is answered
\* with status st.
SendsLoginFor(t, c, st) ==
    /\ SendsLogin(t)
    /\ reqs'[t][Len(reqs[t]) + 1].client = c
    /\ reqs'[t][Len(reqs[t]) + 1].status \in st

\* The token of a client changes only from empty to non-empty and only in a
\* step that sends its login request and gets status 200; a login request is
\* sent for a client only while its token is empty.
TokenWrittenOnceByLogin ==
    \A c \in DOMAIN unifiClients :
        /\ unifiClients'[c].csrfToken # unifiClients[c].csrfToken =>
              /\ unifiClients[c].csrfToken = ""
              /\ unifiClients'[c].csrfToken # ""
              /\ \E t \in Tasks : SendsLoginFor(t, c, {200})
        /\ (\E t \in Tasks : SendsLoginFor(t, c, {0} \cup Statuses)) =>
              unifiClients[c].csrfToken = ""

\* C37: the token of a client is written only by a successful login and is
\* never cleared, and a login request is sent only while the token is empty:
\* over all the passes a client logs in with success once at most, and with a
\* token it sends no login request again, whatever the device answers.
C37_OneLoginPerClient == [][TokenWrittenOnceByLogin]_vars

\* In a later pass the loop has sent its list request with the token of an
\* earlier login, the device has answered 401, and no login was sent.
C37_Witness ==
    /\ now >= 2
    /\ ppc["loop"] = "upsert"
    /\ upc["loop"] = "done"
    /\ Kinds(reqs["loop"]) = <<"list">>
    /\ reqs["loop"][1].status = 401
    /\ reqs["loop"][1].token = "csrf"
    /\ unifiClients[uargs["loop"].client].csrfToken = "csrf"

\* C38: where the list the device returned holds several records with the
\* hostname, the first of them in the order of the list decides alone.  If its
\* value is the ip, the call ends with nil and without a write; if not, the
\* call goes on to one update addressed by the id of that record, and to no
\* create, whatever the values of the later records for the hostname.
C38_FirstRecordDecides ==
    LET t == "caller"
        es == entries[t]
        same == {i \in 1..Len(es) : es[i].Key = uargs[t].hostname}
        log == reqs[t]
    IN  (upc[t] \in {"write", "done"} /\ Cardinality(same) >= 2) =>
            LET first == es[Min(same)]
            IN  IF first.Value = uargs[t].ip
                THEN upc[t] = "done" /\ uerr[t] = Nil /\ Writes(log) = 0
                ELSE /\ existingEntry[t] = first
                     /\ upc[t] = "done" =>
                           /\ Writes(log) = 1
                           /\ log[Len(log)].kind = "update"
                           /\ log[Len(log)].urlId = first.ID
                           /\ log[Len(log)].payload.id = first.ID

\* The list held a.x twice, first with another value and then with the ip:
\* the call has updated the first record, which the device has applied.
C38_Witness ==
    /\ upc["caller"] = "done"
    /\ uargs["caller"].hostname = HostAX
    /\ uargs["caller"].ip = IP1
    /\ entries["caller"] = DecodeEntries(<<Record(HostAX, IP2, 1, TRUE), Record(HostAX, IP1, 2, TRUE)>>)
    /\ reqs["caller"][Len(reqs["caller"])].kind = "update"
    /\ reqs["caller"][Len(reqs["caller"])].urlId = 1
    /\ records["udm1"] = <<Record(HostAX, IP1, 1, TRUE), Record(HostAX, IP1, 2, TRUE)>>

\* The route source has answered with a status other than 200: the pass has
\* aborted with the error of the fetch.  A login, list or write request
\* answered with a status other than 200 is the last of its call, which has
\* ended with an error.
Only200IsSuccess ==
    LET t == "new"
    IN  /\ (answer[t] # NoAnswer /\ ~answer[t].err /\ answer[t].status # 200) =>
              (ppc[t] = "ret" /\ perr[t] = "failed to get Traefik routers")
        /\ (answer[t] # NoAnswer /\ GoodRouteAnswer(answer[t])) => perr[t] = Nil
        /\ \A k \in 1..Len(reqs[t]) :
              reqs[t][k].status # 200 =>
                  (k = Len(reqs[t]) /\ upc[t] = "done" /\ uerr[t] # Nil)

\* The call of updateDNSRecord returns to the pass, which logs it as a success
\* only if every request of the call was answered with status 200.
FailureReported ==
    LET t == "new"
        n == Len(plog'[t])
    IN  (ppc[t] = "upsert" /\ n > Len(plog[t])) =>
            /\ plog'[t][n].ev = "route"
            /\ plog'[t][n].ok => \A k \in 1..Len(reqs[t]) : reqs[t][k].status = 200

\* C39: at the fetch of the routes, the login, the list and the write, only
\* status 200 is a success.  Any other status, 201 included, makes the call
\* return an error: the pass aborts at the fetch, and a call of
\* updateDNSRecord whose write was answered with 201 ends with an error and is
\* logged by the pass as failed.
C39_Only200IsSuccess ==
    /\ []Only200IsSuccess
    /\ [][FailureReported]_vars

\* A create was answered with 201: the device has made the record, and the
\* call has ended with the error of the write.
C39_Witness ==
    /\ upc["new"] = "done"
    /\ reqs["new"][Len(reqs["new"])].kind = "create"
    /\ reqs["new"][Len(reqs["new"])].status = 201
    /\ uerr["new"] = "DNS operation failed with status"
    /\ \E i \in 1..Len(records["udm1"]) :
          records["udm1"][i].key = uargs["new"].hostname /\ records["udm1"][i].value = uargs["new"].ip

====================================================================================
